---- MODULE Spec2Model ----
(***************************************************************************)
(* Conversation stage machine and underwriting decision engine of the      *)
(* Horizon Finance loan assistant (backend/agents, backend/utils).         *)
(*                                                                         *)
(* Units: currency amounts (loan_amount, pre_approved_limit, salary) are   *)
(* whole rupees; values that the code rounds to two decimals (emi,         *)
(* required_min_salary) are integers in paise; interest rates are in       *)
(* tenths of a percent (11.5 % = 115); DTI ratios are in hundredths of a   *)
(* percent (50.0 % = 5000).  Optional[...] numeric fields are <<>> for     *)
(* None and <<v>> for a value; optional strings use the string "None".     *)
(***************************************************************************)
EXTENDS Integers, Sequences, FiniteSets, TLC

VARIABLES
    sessions,      \* StateManager._sessions: session id -> LoanApplicationState
    issued,        \* number of session ids generated so far
    processed,     \* number of process_message calls so far
    lastResponse,  \* the dict returned by the last start_session / process_message
    lastCalls,     \* handlers and collaborators the last operation invoked, in order
    lastStages,    \* conversation_stage at dispatch, then each value assigned to it
    pure           \* arguments and result of a direct call of a pure function

vars == <<sessions, issued, processed, lastResponse, lastCalls, lastStages, pure>>

(***************************************************************************)
(* Bounds of the model.                                                    *)
(***************************************************************************)
MaxSessions == 1
MaxMessages == 3
\* ids the store hands out when it is driven directly
MaxStoreIds == 3
\* sessions the HTTP endpoints may create
MaxApiSessions == 2

(***************************************************************************)
(* Python values.                                                          *)
(***************************************************************************)
None == <<>>
Some(v) == <<v>>
NoneStr == "None"

\* bool(x) of an Optional number: None and 0 are falsy
Truthy(x) == x # None /\ x[1] # 0
\* bool(s) of an Optional string: None and "" are falsy
TruthyStr(s) == s # NoneStr /\ s # ""

(***************************************************************************)
(* Exact arithmetic helpers (all intermediate products fit 32 bits).       *)
(***************************************************************************)
RECURSIVE Pow(_, _)
Pow(b, n) == IF n = 0 THEN 1 ELSE b * Pow(b, n - 1)

RECURSIVE GCD(_, _)
GCD(a, b) == IF b = 0 THEN a ELSE GCD(b, a % b)

\* round(a * b / c) to the nearest integer, ties to even (Python's round),
\* for a >= 0, b > 0, c > 0, without forming the product a * b
MulDivRound(a, b, c) ==
    LET q1  == a \div c
        t   == (a % c) * b
        q   == q1 * b + (t \div c)
        rem == t % c
    IN  IF 2 * rem > c THEN q + 1
        ELSE IF 2 * rem < c THEN q
        ELSE IF q % 2 = 0 THEN q ELSE q + 1

(***************************************************************************)
(* LoanCalculator (backend/utils/loan_calculator.py)                       *)
(***************************************************************************)
\* monthly_rate = annual_rate / (12 * 100); with the rate in tenths of a
\* percent, 1 + monthly_rate = (RateBase + rate) / RateBase
RateBase == 12000
PaisePerRupee == 100

\* emi = P * r * (1+r)^n / ((1+r)^n - 1), rounded to 2 decimals (paise).
\* With A = RateBase + rate: emi = P * rate * A^n / (RateBase * (A^n - RateBase^n)).
calculate_emi(principal, annual_rate, tenure_months) ==
    IF principal <= 0 \/ annual_rate <= 0 \/ tenure_months <= 0
    THEN 0
    ELSE LET A   == RateBase + annual_rate
             num == annual_rate * Pow(A, tenure_months)
             den == (RateBase \div PaisePerRupee)
                      * (Pow(A, tenure_months) - Pow(RateBase, tenure_months))
             g   == GCD(num, den)
         IN  MulDivRound(principal, num \div g, den \div g)

DTI_SENTINEL == 10000

\* calculate_dti_ratio answering 0.0 when there is no salary
calculate_dti_ratio_zero_sentinel(emi, monthly_salary) ==
    IF monthly_salary <= 0
    THEN 0
    ELSE MulDivRound(emi, 100, monthly_salary)

\* round((emi / monthly_salary) * 100, 2), in hundredths of a percent
calculate_dti_ratio(emi, monthly_salary) ==
    IF monthly_salary <= 0
    THEN DTI_SENTINEL
    ELSE MulDivRound(emi, 100, monthly_salary)

suggest_interest_rate(credit_score) ==
    IF credit_score >= 800 THEN 105
    ELSE IF credit_score >= 750 THEN 110
    ELSE IF credit_score >= 700 THEN 120
    ELSE IF credit_score >= 650 THEN 140
    ELSE 160

(***************************************************************************)
(* VerificationAgent (backend/agents/verification_agent.py)                *)
(***************************************************************************)
DEMO_PHONE_NUMBER == "7982130057"
DEMO_CREDIT_SCORE == 800
DEMO_PRE_APPROVED_LIMIT == 1000000
DEFAULT_PHONE == "0000000000"

DirectoryPhones ==
    {"9876543210", "9876543211", "9876543212", "9876543213", "9876543214"}

MOCK_CUSTOMER_DATABASE ==
    [p \in DirectoryPhones |->
        CASE p = "9876543210" ->
               [name |-> "Rahul Sharma", address_verified |-> TRUE,
                phone_verified |-> TRUE, credit_score |-> 750,
                pre_approved_limit |-> 300000]
          [] p = "9876543211" ->
               [name |-> "Priya Patel", address_verified |-> TRUE,
                phone_verified |-> TRUE, credit_score |-> 680,
                pre_approved_limit |-> 200000]
          [] p = "9876543212" ->
               [name |-> "Amit Kumar", address_verified |-> TRUE,
                phone_verified |-> TRUE, credit_score |-> 820,
                pre_approved_limit |-> 500000]
          [] p = "9876543213" ->
               [name |-> "Sneha Gupta", address_verified |-> TRUE,
                phone_verified |-> TRUE, credit_score |-> 720,
                pre_approved_limit |-> 350000]
          [] p = "9876543214" ->
               [name |-> "Vikram Singh", address_verified |-> TRUE,
                phone_verified |-> TRUE, credit_score |-> 650,
                pre_approved_limit |-> 150000]]

\* _calculate_pre_approved_limit with the tiers starting above their scores
_calculate_pre_approved_limit_exclusive(credit_score) ==
    IF credit_score > 800 THEN 500000
    ELSE IF credit_score > 750 THEN 400000
    ELSE IF credit_score > 700 THEN 300000
    ELSE IF credit_score > 650 THEN 200000
    ELSE 100000

_calculate_pre_approved_limit(credit_score) ==
    IF credit_score >= 800 THEN 500000
    ELSE IF credit_score >= 750 THEN 400000
    ELSE IF credit_score >= 700 THEN 300000
    ELSE IF credit_score >= 650 THEN 200000
    ELSE 100000

\* verify_customer without the demo branch
verify_customer_without_demo(phone_number, customer_name, draw) ==
    LET phone == IF TruthyStr(phone_number) THEN phone_number ELSE DEFAULT_PHONE
    IN  IF phone \in DOMAIN MOCK_CUSTOMER_DATABASE
        THEN LET customer == MOCK_CUSTOMER_DATABASE[phone]
             IN  [success |-> TRUE,
                  phone_verified |-> customer.phone_verified,
                  address_verified |-> customer.address_verified,
                  credit_score |-> customer.credit_score,
                  pre_approved_limit |-> customer.pre_approved_limit,
                  customer_name |-> customer.name]
        ELSE [success |-> TRUE, phone_verified |-> TRUE, address_verified |-> TRUE,
              credit_score |-> draw,
              pre_approved_limit |-> _calculate_pre_approved_limit(draw),
              customer_name |-> IF TruthyStr(customer_name) THEN customer_name
                                ELSE "Valued Customer"]

\* draw is the value random.randint(0, 900) returns if it is reached
verify_customer(phone_number, customer_name, draw) ==
    LET phone == IF TruthyStr(phone_number) THEN phone_number ELSE DEFAULT_PHONE
    IN  IF phone = DEMO_PHONE_NUMBER
        THEN [success |-> TRUE, phone_verified |-> TRUE, address_verified |-> TRUE,
              credit_score |-> DEMO_CREDIT_SCORE,
              pre_approved_limit |-> DEMO_PRE_APPROVED_LIMIT,
              customer_name |-> IF TruthyStr(customer_name) THEN customer_name
                                ELSE "Demo Customer"]
        ELSE IF phone \in DOMAIN MOCK_CUSTOMER_DATABASE
        THEN LET customer == MOCK_CUSTOMER_DATABASE[phone]
             IN  [success |-> TRUE,
                  phone_verified |-> customer.phone_verified,
                  address_verified |-> customer.address_verified,
                  credit_score |-> customer.credit_score,
                  pre_approved_limit |-> customer.pre_approved_limit,
                  customer_name |-> customer.name]
        ELSE [success |-> TRUE, phone_verified |-> TRUE, address_verified |-> TRUE,
              credit_score |-> draw,
              pre_approved_limit |-> _calculate_pre_approved_limit(draw),
              customer_name |-> IF TruthyStr(customer_name) THEN customer_name
                                ELSE "Valued Customer"]

(***************************************************************************)
(* UnderwritingAgent (backend/agents/underwriting_agent.py)                *)
(***************************************************************************)
MIN_CREDIT_SCORE == 700
MAX_DTI_RATIO == 5000
MAX_MULTIPLIER == 2

\* _calculate_min_required_salary dividing by the percentage itself
_calculate_min_required_salary_by_percent(emi) ==
    MulDivRound(emi, 100, MAX_DTI_RATIO)

\* round(emi / (MAX_DTI_RATIO / 100), 2), in paise
_calculate_min_required_salary(emi) ==
    MulDivRound(emi, 10000, MAX_DTI_RATIO)

Decision(decision, reason, emi, requires_salary, required_min_salary, dti_ratio) ==
    [decision |-> decision, reason |-> reason, emi |-> emi,
     requires_salary |-> requires_salary,
     required_min_salary |-> required_min_salary, dti_ratio |-> dti_ratio]

\* evaluate with another credit gate, another test of the pre-approved
\* limit or another test of the DTI ratio
evaluate_variant(gate, Within(_, _), Affordable(_), loan_amount, tenure_months, interest_rate, credit_score, pre_approved_limit, salary) ==
    IF ~Truthy(loan_amount) \/ ~Truthy(tenure_months) \/ ~Truthy(interest_rate)
    THEN Decision("pending", <<"Missing loan details">>, None, FALSE, None, None)
    ELSE IF ~Truthy(credit_score) \/ ~Truthy(pre_approved_limit)
    THEN Decision("pending", <<"Missing credit information">>, None, FALSE, None, None)
    ELSE IF credit_score[1] < gate
    THEN Decision("rejected", <<"Credit score below minimum", credit_score[1], gate>>,
                  None, FALSE, None, None)
    ELSE
      LET emi == calculate_emi(loan_amount[1], interest_rate[1], tenure_months[1])
          max_allowed == pre_approved_limit[1] * MAX_MULTIPLIER
      IN  IF Within(loan_amount[1], pre_approved_limit[1])
          THEN Decision("approved", <<"Within pre-approved limit">>,
                        Some(emi), FALSE, None, None)
          ELSE IF loan_amount[1] > max_allowed
          THEN Decision("rejected", <<"Exceeds maximum allowed limit", max_allowed>>,
                        None, FALSE, None, None)
          ELSE IF salary = None
          THEN Decision("pending", <<"Salary verification required">>,
                        Some(emi), TRUE,
                        Some(_calculate_min_required_salary(emi)), None)
          ELSE
            LET dti_ratio == calculate_dti_ratio(emi, salary[1])
            IN  IF Affordable(dti_ratio)
                THEN Decision("approved", <<"Approved on salary verification">>,
                              Some(emi), FALSE, None, Some(dti_ratio))
                ELSE Decision("rejected", <<"DTI ratio too high">>,
                              Some(emi), FALSE, None, Some(dti_ratio))

\* evaluate asking for the credit information before the loan details
evaluate_credit_first(loan_amount, tenure_months, interest_rate, credit_score, pre_approved_limit, salary) ==
    IF ~Truthy(credit_score) \/ ~Truthy(pre_approved_limit)
    THEN Decision("pending", <<"Missing credit information">>, None, FALSE, None, None)
    ELSE evaluate_variant(MIN_CREDIT_SCORE, LAMBDA a, l : a <= l,
                          LAMBDA d : d <= MAX_DTI_RATIO,
                          loan_amount, tenure_months, interest_rate, credit_score,
                          pre_approved_limit, salary)

\* evaluate with the credit gate at 650
evaluate_gate_at_650(loan_amount, tenure_months, interest_rate, credit_score, pre_approved_limit, salary) ==
    evaluate_variant(650, LAMBDA a, l : a <= l, LAMBDA d : d <= MAX_DTI_RATIO,
                     loan_amount, tenure_months, interest_rate, credit_score,
                     pre_approved_limit, salary)

\* evaluate approving only below the pre-approved limit
evaluate_limit_exclusive(loan_amount, tenure_months, interest_rate, credit_score, pre_approved_limit, salary) ==
    evaluate_variant(MIN_CREDIT_SCORE, LAMBDA a, l : a < l, LAMBDA d : d <= MAX_DTI_RATIO,
                     loan_amount, tenure_months, interest_rate, credit_score,
                     pre_approved_limit, salary)

\* evaluate approving only below the maximum DTI ratio
evaluate_dti_exclusive(loan_amount, tenure_months, interest_rate, credit_score, pre_approved_limit, salary) ==
    evaluate_variant(MIN_CREDIT_SCORE, LAMBDA a, l : a <= l, LAMBDA d : d < MAX_DTI_RATIO,
                     loan_amount, tenure_months, interest_rate, credit_score,
                     pre_approved_limit, salary)

\* every argument is an Optional number
evaluate(loan_amount, tenure_months, interest_rate, credit_score, pre_approved_limit, salary) ==
    IF ~Truthy(loan_amount) \/ ~Truthy(tenure_months) \/ ~Truthy(interest_rate)
    THEN Decision("pending", <<"Missing loan details">>, None, FALSE, None, None)
    ELSE IF ~Truthy(credit_score) \/ ~Truthy(pre_approved_limit)
    THEN Decision("pending", <<"Missing credit information">>, None, FALSE, None, None)
    ELSE IF credit_score[1] < MIN_CREDIT_SCORE
    THEN Decision("rejected",
                  <<"Credit score below minimum", credit_score[1], MIN_CREDIT_SCORE>>,
                  None, FALSE, None, None)
    ELSE
      LET emi == calculate_emi(loan_amount[1], interest_rate[1], tenure_months[1])
          max_allowed == pre_approved_limit[1] * MAX_MULTIPLIER
      IN  IF loan_amount[1] <= pre_approved_limit[1]
          THEN Decision("approved", <<"Within pre-approved limit">>,
                        Some(emi), FALSE, None, None)
          ELSE IF loan_amount[1] > max_allowed
          THEN Decision("rejected", <<"Exceeds maximum allowed limit", max_allowed>>,
                        None, FALSE, None, None)
          ELSE IF salary = None
          THEN Decision("pending", <<"Salary verification required">>,
                        Some(emi), TRUE,
                        Some(_calculate_min_required_salary(emi)), None)
          ELSE
            LET dti_ratio == calculate_dti_ratio(emi, salary[1])
            IN  IF dti_ratio <= MAX_DTI_RATIO
                THEN Decision("approved", <<"Approved on salary verification">>,
                              Some(emi), FALSE, None, Some(dti_ratio))
                ELSE Decision("rejected", <<"DTI ratio too high">>,
                              Some(emi), FALSE, None, Some(dti_ratio))

(***************************************************************************)
(* PDFGenerator / SanctionAgent (backend/utils/pdf_generator.py,           *)
(* backend/agents/sanction_agent.py)                                       *)
(***************************************************************************)
\* os.path.join(output_dir, f"sanction_letter_{session_id[:8]}.pdf")
get_download_path(session_id) == <<"generated_letters/sanction_letter", session_id>>

\* pdf_ok: whether PDFGenerator.generate_sanction_letter returns (TRUE) or
\* raises (FALSE, e.g. the output file cannot be written)
generate_sanction_letter(customer_name, loan_amount, tenure_months, interest_rate, emi, session_id, pdf_ok) ==
    IF ~(TruthyStr(customer_name) /\ Truthy(loan_amount) /\ Truthy(tenure_months)
         /\ Truthy(interest_rate) /\ Truthy(emi) /\ session_id # 0)
    THEN [success |-> FALSE, file_path |-> None]
    ELSE IF pdf_ok
    THEN [success |-> TRUE, file_path |-> get_download_path(session_id)]
    ELSE [success |-> FALSE, file_path |-> None]

(***************************************************************************)
(* LoanApplicationState / StateManager (backend/utils/state_manager.py)    *)
(***************************************************************************)
Stages == {"greeting", "collecting_info", "kyc_verification", "underwriting",
           "salary_collection", "decision", "sanction_letter", "completed"}

UnderwritingStatuses == {"pending", "requires_salary", "approved", "rejected"}

\* the dataclass defaults; session_id stands for the uuid4 drawn at creation
LoanApplicationState(session_id) ==
    [session_id |-> session_id,
     customer_name |-> NoneStr, phone_number |-> NoneStr,
     loan_amount |-> None, tenure_months |-> None, interest_rate |-> None,
     credit_score |-> None, salary |-> None, emi |-> None,
     pre_approved_limit |-> None,
     kyc_verified |-> FALSE, phone_verified |-> FALSE, address_verified |-> FALSE,
     underwriting_status |-> "pending",
     final_decision |-> NoneStr, rejection_reason |-> None,
     conversation_stage |-> "greeting",
     conversation_history |-> <<>>,
     sanction_letter_path |-> None]

\* add_message keeping only the newest entry
add_message_keeping_newest(state, role, content) ==
    [state EXCEPT !.conversation_history = <<[role |-> role, content |-> content]>>]

add_message(state, role, content) ==
    [state EXCEPT !.conversation_history =
        Append(@, [role |-> role, content |-> content])]

\* session ids are 1, 2, ...; id 0 stands for an id that was never issued
UnknownId == 0

\* StateManager.get_session: the stored record, or None
get_session(store, session_id) ==
    IF session_id \in DOMAIN store THEN Some(store[session_id]) ELSE None

\* StateManager.create_session: a fresh id, registered under that id
create_session(store, fresh) ==
    [id \in DOMAIN store \cup {fresh} |->
        IF id = fresh THEN LoanApplicationState(fresh) ELSE store[id]]

\* StateManager.delete_session: the store without the id, and whether it was there
delete_session(store, session_id) ==
    [store |-> [id \in DOMAIN store \ {session_id} |-> store[id]],
     deleted |-> session_id \in DOMAIN store]

(***************************************************************************)
(* MasterAgent stage handlers (backend/agents/master_agent.py).            *)
(* A handler maps the session record and the turn's inputs to the updated  *)
(* record and the response dict.  inp = [message, extraction, draw, pdf_ok]*)
(* holds the user message and what the collaborators return when called.   *)
(* Response messages are sequences of text parts; LLM-written replies are   *)
(* the part "natural_response" / "sales_response".  A result also lists,    *)
(* in order, the handlers and collaborators invoked (calls) and the values  *)
(* assigned to conversation_stage (stages).                                 *)
(***************************************************************************)
\* Op(e), with e evaluated once
Bind(Op(_), e) == CHOOSE r \in {Op(x) : x \in {e}} : TRUE

Result(state, message, actions, download_available, download_path, calls, stages) ==
    [state |-> state, message |-> message, actions |-> actions,
     download_available |-> download_available,
     download_path |-> download_path, calls |-> calls, stages |-> stages]

\* the result of a handler that was entered by a caller which itself made
\* the given calls and stage assignments
After(calls, stages, sub) ==
    [sub EXCEPT !.calls = calls \o @, !.stages = stages \o @]

\* f"/api/download/{state.session_id}"
DownloadUrl(session_id) == <<"/api/download", session_id>>

NameOrDefault(state) ==
    IF TruthyStr(state.customer_name) THEN state.customer_name ELSE "Valued Customer"

\* _handle_sanction_letter taking the approval back when issuance fails
SanctionLetterOutcome_withdrawing_approval(state, result) ==
    LET calls == <<"_handle_sanction_letter", "generate_sanction_letter">>
    IN  IF result.success
        THEN Result([state EXCEPT !.sanction_letter_path = result.file_path,
                                  !.conversation_stage = "completed"],
                    <<"approval_message">>,
                    <<"application_approved", "sanction_letter_generated">>,
                    "True", DownloadUrl(state.session_id), calls, <<"completed">>)
        ELSE Result([state EXCEPT !.final_decision = NoneStr,
                                  !.underwriting_status = "pending"],
                    <<"sanction_letter_error">>, <<"sanction_letter_error">>,
                    "False", None, calls, <<>>)

\* SanctionLetterOutcome leaving a failed issuance to the decision stage
SanctionLetterOutcome_resting_in_decision(state, result) ==
    LET calls == <<"_handle_sanction_letter", "generate_sanction_letter">>
    IN  IF result.success
        THEN Result([state EXCEPT !.sanction_letter_path = result.file_path,
                                  !.conversation_stage = "completed"],
                    <<"approval_message">>,
                    <<"application_approved", "sanction_letter_generated">>,
                    "True", DownloadUrl(state.session_id), calls, <<"completed">>)
        ELSE Result([state EXCEPT !.conversation_stage = "decision"],
                    <<"sanction_letter_error">>, <<"sanction_letter_error">>,
                    "False", None, calls, <<"decision">>)

\* SanctionLetterOutcome closing the session when issuance failed
SanctionLetterOutcome_completing_on_failure(state, result) ==
    LET calls == <<"_handle_sanction_letter", "generate_sanction_letter">>
    IN  IF result.success
        THEN Result([state EXCEPT !.sanction_letter_path = result.file_path,
                                  !.conversation_stage = "completed"],
                    <<"approval_message">>,
                    <<"application_approved", "sanction_letter_generated">>,
                    "True", DownloadUrl(state.session_id), calls, <<"completed">>)
        ELSE Result([state EXCEPT !.conversation_stage = "completed"],
                    <<"sanction_letter_error">>, <<"sanction_letter_error">>,
                    "False", None, calls, <<"completed">>)

\* SanctionLetterOutcome offering the download although issuance failed
SanctionLetterOutcome_offering_download(state, result) ==
    LET calls == <<"_handle_sanction_letter", "generate_sanction_letter">>
    IN  IF result.success
        THEN Result([state EXCEPT !.sanction_letter_path = result.file_path,
                                  !.conversation_stage = "completed"],
                    <<"approval_message">>,
                    <<"application_approved", "sanction_letter_generated">>,
                    "True", DownloadUrl(state.session_id), calls, <<"completed">>)
        ELSE Result(state, <<"sanction_letter_error">>, <<"sanction_letter_error">>,
                    "True", DownloadUrl(state.session_id), calls, <<>>)

SanctionLetterOutcome(state, result) ==
    LET calls == <<"_handle_sanction_letter", "generate_sanction_letter">>
    IN  IF result.success
        THEN Result([state EXCEPT !.sanction_letter_path = result.file_path,
                                  !.conversation_stage = "completed"],
                    <<"approval_message">>,
                    <<"application_approved", "sanction_letter_generated">>,
                    "True", DownloadUrl(state.session_id), calls, <<"completed">>)
        ELSE Result(state, <<"sanction_letter_error">>, <<"sanction_letter_error">>,
                    "False", None, calls, <<>>)

\* _handle_sanction_letter calling document issuance again when it failed
_handle_sanction_letter_retrying(state, inp) ==
    LET Outcome(result) ==
            IF result.success THEN SanctionLetterOutcome(state, result)
            ELSE After(<<"_handle_sanction_letter", "generate_sanction_letter">>, <<>>,
                       SanctionLetterOutcome(state, result))
    IN  Bind(Outcome,
             generate_sanction_letter(NameOrDefault(state), state.loan_amount,
                 state.tenure_months, state.interest_rate, state.emi,
                 state.session_id, inp.pdf_ok))

_handle_sanction_letter(state, inp) ==
    LET Outcome(result) == SanctionLetterOutcome(state, result)
    IN  Bind(Outcome,
             generate_sanction_letter(NameOrDefault(state), state.loan_amount,
                 state.tenure_months, state.interest_rate, state.emi,
                 state.session_id, inp.pdf_ok))

\* UnderwritingOutcome recording a rejection without its reason
UnderwritingOutcome_dropping_reason(state, inp, underwriting_result) ==
    LET decision == underwriting_result.decision
        calls    == <<"_handle_underwriting", "evaluate">>
    IN  IF decision = "approved"
        THEN After(calls, <<"sanction_letter">>,
                   _handle_sanction_letter(
                       [state EXCEPT !.underwriting_status = "approved",
                                     !.final_decision = "approved",
                                     !.emi = underwriting_result.emi,
                                     !.conversation_stage = "sanction_letter"], inp))
        ELSE IF decision = "rejected"
        THEN Result([state EXCEPT !.underwriting_status = "rejected",
                                  !.final_decision = "rejected",
                                  !.conversation_stage = "completed"],
                    <<"rejection_message">>, <<"application_rejected">>,
                    "False", None, calls, <<"completed">>)
        ELSE IF decision = "pending"
        THEN Result([state EXCEPT !.underwriting_status = "requires_salary",
                                  !.emi = underwriting_result.emi,
                                  !.conversation_stage = "salary_collection"],
                    <<"natural_response">>, <<"salary_required">>,
                    "False", None, calls, <<"salary_collection">>)
        ELSE Result(state, <<"Processing your application...">>, <<>>,
                    "False", None, calls, <<>>)

\* lines 285-327: the branch on the evaluator's decision
UnderwritingOutcome(state, inp, underwriting_result) ==
    LET decision == underwriting_result.decision
        calls    == <<"_handle_underwriting", "evaluate">>
    IN  IF decision = "approved"
        THEN After(calls, <<"sanction_letter">>,
                   _handle_sanction_letter(
                       [state EXCEPT !.underwriting_status = "approved",
                                     !.final_decision = "approved",
                                     !.emi = underwriting_result.emi,
                                     !.conversation_stage = "sanction_letter"], inp))
        ELSE IF decision = "rejected"
        THEN Result([state EXCEPT !.underwriting_status = "rejected",
                                  !.final_decision = "rejected",
                                  !.rejection_reason = underwriting_result.reason,
                                  !.conversation_stage = "completed"],
                    <<"rejection_message">>, <<"application_rejected">>,
                    "False", None, calls, <<"completed">>)
        ELSE IF decision = "pending"
        THEN Result([state EXCEPT !.underwriting_status = "requires_salary",
                                  !.emi = underwriting_result.emi,
                                  !.conversation_stage = "salary_collection"],
                    <<"natural_response">>, <<"salary_required">>,
                    "False", None, calls, <<"salary_collection">>)
        ELSE Result(state, <<"Processing your application...">>, <<>>,
                    "False", None, calls, <<>>)

_handle_underwriting(state, inp) ==
    LET Outcome(underwriting_result) == UnderwritingOutcome(state, inp, underwriting_result)
    IN  Bind(Outcome,
             evaluate(state.loan_amount, state.tenure_months, state.interest_rate,
                      state.credit_score, state.pre_approved_limit, state.salary))

\* lines 217-227: the verification result stored in the state
KycState(state, verification_result) ==
    LET st1 == [state EXCEPT
                  !.kyc_verified = verification_result.success,
                  !.phone_verified = verification_result.phone_verified,
                  !.address_verified = verification_result.address_verified,
                  !.credit_score = Some(verification_result.credit_score),
                  !.pre_approved_limit = Some(verification_result.pre_approved_limit)]
    IN  [st1 EXCEPT
           !.interest_rate = IF ~Truthy(@)
                             THEN Some(suggest_interest_rate(verification_result.credit_score))
                             ELSE @,
           !.conversation_stage = "underwriting"]

\* KycOutcome prepending the KYC message to every underwriting result
KycOutcome_always_congratulating(credit_score, underwriting_result) ==
    [underwriting_result EXCEPT !.message = <<"kyc_message">> \o @]

\* lines 229-267: the KYC framing of the underwriting result
KycOutcome(credit_score, underwriting_result) ==
    LET credit_score_value == IF credit_score # None THEN credit_score[1] ELSE 0
        credit_score_too_low == credit_score_value < 700
    IN  IF credit_score_too_low
           \/ underwriting_result.actions = <<"application_rejected">>
        THEN [underwriting_result EXCEPT !.download_available = "False",
                                         !.download_path = None]
        ELSE [underwriting_result EXCEPT !.message = <<"kyc_message">> \o @]

\* _handle_kyc answering after verification and leaving underwriting to the
\* next message
_handle_kyc_returning_after_verification(state, inp) ==
    Result(KycState(state, verify_customer(state.phone_number, state.customer_name,
                                           inp.draw)),
           <<"kyc_message">>, <<"kyc_complete">>, "False", None,
           <<"_handle_kyc", "verify_customer">>, <<"underwriting">>)

_handle_kyc(state, inp) ==
    LET Outcome(st) ==
            LET Framed(underwriting_result) ==
                    KycOutcome(st.credit_score, underwriting_result)
            IN  After(<<"_handle_kyc", "verify_customer">>, <<"underwriting">>,
                      Bind(Framed, _handle_underwriting(st, inp)))
    IN  Bind(Outcome,
             KycState(state, verify_customer(state.phone_number, state.customer_name,
                                             inp.draw)))

\* _get_missing_required_fields with the tenure check left out
_get_missing_required_fields_without_tenure(state) ==
    (IF ~TruthyStr(state.customer_name) THEN <<"customer name">> ELSE <<>>)
    \o (IF ~TruthyStr(state.phone_number) THEN <<"phone number">> ELSE <<>>)
    \o (IF ~Truthy(state.loan_amount) THEN <<"loan amount">> ELSE <<>>)

_get_missing_required_fields(state) ==
    (IF ~TruthyStr(state.customer_name) THEN <<"customer name">> ELSE <<>>)
    \o (IF ~TruthyStr(state.phone_number) THEN <<"phone number">> ELSE <<>>)
    \o (IF ~Truthy(state.loan_amount) THEN <<"loan amount">> ELSE <<>>)
    \o (IF ~Truthy(state.tenure_months) THEN <<"loan tenure">> ELSE <<>>)

Contains(seq, x) == \E i \in 1..Len(seq) : seq[i] = x

\* lines 135-160: every truthy extracted value overwrites its field
\* (float(...) and int(...) of the whole numbers of the model are those numbers)
MergeExtraction(state, extraction) ==
    IF ~extraction.success THEN state
    ELSE LET data == extraction.data
         IN  [state EXCEPT
               !.customer_name = IF TruthyStr(data.customer_name)
                                 THEN data.customer_name ELSE @,
               !.phone_number = IF TruthyStr(data.phone_number)
                                THEN data.phone_number ELSE @,
               !.loan_amount = IF Truthy(data.loan_amount) THEN data.loan_amount ELSE @,
               !.tenure_months = IF Truthy(data.tenure_months)
                                 THEN data.tenure_months ELSE @,
               !.interest_rate = IF Truthy(data.interest_rate)
                                 THEN data.interest_rate ELSE @,
               !.salary = IF Truthy(data.salary) THEN data.salary ELSE @]

\* PromptContext asking for the field that _get_missing_required_fields
\* lists first
PromptContext_first_listed(missing) == missing[1]

\* lines 175-196: the field the prompt context asks for (the wording also
\* depends on whether the user seems to be leaving, the field does not)
PromptContext(missing) ==
    IF Contains(missing, "loan amount") THEN "loan amount"
    ELSE IF Contains(missing, "loan tenure") THEN "loan tenure"
    ELSE IF Contains(missing, "phone number") THEN "phone number"
    ELSE IF Contains(missing, "customer name") THEN "customer name"
    ELSE "missing information"

\* lines 162-204: the branch on the missing required fields
InfoCollectionOutcome(state, inp, missing) ==
    LET calls == <<"_handle_info_collection", "extract_loan_requirements">>
    IN  IF missing = <<>>
        THEN After(calls, <<"kyc_verification">>,
                   _handle_kyc([state EXCEPT !.conversation_stage = "kyc_verification"],
                               inp))
        ELSE Result(state, <<"sales_response", PromptContext(missing)>>,
                    <<"collecting_info">>, "False", None, calls, <<>>)

_handle_info_collection(state, inp) ==
    LET Outcome(st) ==
            LET Branch(missing) == InfoCollectionOutcome(st, inp, missing)
            IN  Bind(Branch, _get_missing_required_fields(st))
    IN  Bind(Outcome, MergeExtraction(state, inp.extraction))

\* _handle_greeting going straight to verification
_handle_greeting_skipping_collection(state, inp) ==
    Result([state EXCEPT !.conversation_stage = "kyc_verification"],
           <<"natural_response">>, <<"greeting_complete">>, "False", None,
           <<"_handle_greeting">>, <<"kyc_verification">>)

\* _handle_greeting keeping the digits of the greeting as a phone number
_handle_greeting_recording_phone(state, inp) ==
    Result([state EXCEPT !.conversation_stage = "collecting_info",
                         !.phone_number = IF inp.message = <<"h", "i">>
                                          THEN @ ELSE "9123456780"],
           <<"natural_response">>, <<"greeting_complete">>, "False", None,
           <<"_handle_greeting">>, <<"collecting_info">>)

_handle_greeting(state, inp) ==
    Result([state EXCEPT !.conversation_stage = "collecting_info"],
           <<"natural_response">>, <<"greeting_complete">>, "False", None,
           <<"_handle_greeting">>, <<"collecting_info">>)

\* ''.join(c for c in user_message if c.isdigit() or c == '.')
Digits == {"0", "1", "2", "3", "4", "5", "6", "7", "8", "9"}
Cleaned(user_message) ==
    SelectSeq(user_message, LAMBDA c : c \in Digits \/ c = ".")

DigitValue(c) ==
    CASE c = "0" -> 0 [] c = "1" -> 1 [] c = "2" -> 2 [] c = "3" -> 3
      [] c = "4" -> 4 [] c = "5" -> 5 [] c = "6" -> 6 [] c = "7" -> 7
      [] c = "8" -> 8 [] c = "9" -> 9

RECURSIVE DecimalValue(_)
DecimalValue(ds) ==
    IF ds = <<>> THEN 0
    ELSE 10 * DecimalValue(SubSeq(ds, 1, Len(ds) - 1)) + DigitValue(ds[Len(ds)])

\* float(cleaned): None stands for ValueError (no digit, or more than one
\* dot); the value is the integer part, the modelled messages having no
\* fractional digits
ParseFloat(cleaned) ==
    LET dots   == SelectSeq(cleaned, LAMBDA c : c = ".")
        digits == SelectSeq(cleaned, LAMBDA c : c \in Digits)
    IN  IF Len(dots) > 1 \/ digits = <<>> THEN None
        ELSE Some(DecimalValue(digits))

\* lines 339-351: the salary the turn obtains, None when there is none
ObtainedSalary(extraction, user_message) ==
    IF extraction.success /\ Truthy(extraction.data.salary)
    THEN extraction.data.salary
    ELSE IF Cleaned(user_message) # <<>>
    THEN ParseFloat(Cleaned(user_message))
    ELSE None

SalaryCollectionOutcome(state, inp, salary) ==
    LET calls == <<"_handle_salary_collection", "extract_loan_requirements">>
    IN  IF salary # None
        THEN After(calls, <<"underwriting">>,
                   _handle_underwriting(
                       [state EXCEPT !.salary = salary,
                                     !.conversation_stage = "underwriting"], inp))
        ELSE Result(state, <<"natural_response">>, <<"awaiting_salary">>,
                    "False", None, calls, <<>>)

\* _handle_salary_collection updating the state from the extraction as
\* _handle_info_collection does
_handle_salary_collection_merging_extraction(state, inp) ==
    LET Outcome(salary) ==
            SalaryCollectionOutcome(MergeExtraction(state, inp.extraction), inp, salary)
    IN  Bind(Outcome, ObtainedSalary(inp.extraction, inp.message))

\* _handle_salary_collection taking the loan terms of the extraction after
\* the application was evaluated
_handle_salary_collection_taking_terms(state, inp) ==
    LET Outcome(salary) ==
            [SalaryCollectionOutcome(state, inp, salary)
                EXCEPT !.state = MergeExtraction(@, inp.extraction)]
    IN  Bind(Outcome, ObtainedSalary(inp.extraction, inp.message))

_handle_salary_collection(state, inp) ==
    LET Outcome(salary) == SalaryCollectionOutcome(state, inp, salary)
    IN  Bind(Outcome, ObtainedSalary(inp.extraction, inp.message))

_handle_decision(state, inp) ==
    Result(state, <<"Your application has been processed.">>, <<>>,
           "False", None, <<"_handle_decision">>, <<>>)

\* download_available = final_decision == "approved" and sanction_letter_path:
\* Python's `and` yields False, None or the path itself
CompletedDownload(state) ==
    IF state.final_decision # "approved" THEN "False"
    ELSE IF state.sanction_letter_path = None THEN "None"
    ELSE "Path"

\* _handle_completed forgetting the decision
_handle_completed_clearing_decision(state, inp) ==
    Result([state EXCEPT !.final_decision = NoneStr],
           <<"natural_response">>, <<"conversation_complete">>,
           "False", None, <<"_handle_completed">>, <<>>)

\* _handle_completed opening a new application in the same session
_handle_completed_restarting(state, inp) ==
    Result([state EXCEPT !.conversation_stage = "collecting_info",
                         !.underwriting_status = "pending"],
           <<"natural_response">>, <<"conversation_complete">>,
           CompletedDownload(state), None, <<"_handle_completed">>,
           <<"collecting_info">>)

_handle_completed(state, inp) ==
    Result(state, <<"natural_response">>, <<"conversation_complete">>,
           CompletedDownload(state),
           IF CompletedDownload(state) = "Path"
           THEN DownloadUrl(state.session_id) ELSE None,
           <<"_handle_completed">>, <<>>)

\* _orchestrate sending a session that rests in sanction_letter through
\* verification again
_orchestrate_reverifying(state, inp) ==
    LET stage == state.conversation_stage
    IN  IF stage = "greeting" THEN _handle_greeting(state, inp)
        ELSE IF stage = "collecting_info" THEN _handle_info_collection(state, inp)
        ELSE IF stage = "kyc_verification" THEN _handle_kyc(state, inp)
        ELSE IF stage = "underwriting" THEN _handle_underwriting(state, inp)
        ELSE IF stage = "salary_collection" THEN _handle_salary_collection(state, inp)
        ELSE IF stage = "decision" THEN _handle_decision(state, inp)
        ELSE IF stage = "sanction_letter" THEN _handle_kyc(state, inp)
        ELSE IF stage = "completed" THEN _handle_completed(state, inp)
        ELSE _handle_info_collection(state, inp)

_orchestrate(state, inp) ==
    LET stage == state.conversation_stage
    IN  IF stage = "greeting" THEN _handle_greeting(state, inp)
        ELSE IF stage = "collecting_info" THEN _handle_info_collection(state, inp)
        ELSE IF stage = "kyc_verification" THEN _handle_kyc(state, inp)
        ELSE IF stage = "underwriting" THEN _handle_underwriting(state, inp)
        ELSE IF stage = "salary_collection" THEN _handle_salary_collection(state, inp)
        ELSE IF stage = "decision" THEN _handle_decision(state, inp)
        ELSE IF stage = "sanction_letter" THEN _handle_sanction_letter(state, inp)
        ELSE IF stage = "completed" THEN _handle_completed(state, inp)
        ELSE _handle_info_collection(state, inp)

\* Respond reporting the first stage the turn entered
RespondWithFirstStage(state, res) ==
    [state |-> add_message(state, "assistant", res.message),
     calls |-> res.calls,
     stages |-> res.stages,
     response |-> [session_id |-> state.session_id,
                   message |-> res.message,
                   stage |-> IF res.stages # <<>> THEN res.stages[1]
                             ELSE state.conversation_stage,
                   actions |-> res.actions,
                   download_available |-> res.download_available,
                   download_path |-> res.download_path]]

\* lines 63-73: the reply is recorded and the response built from the state
\* as the handlers left it
Respond(state, res) ==
    [state |-> add_message(state, "assistant", res.message),
     calls |-> res.calls,
     stages |-> res.stages,
     response |-> [session_id |-> state.session_id,
                   message |-> res.message,
                   stage |-> state.conversation_stage,
                   actions |-> res.actions,
                   download_available |-> res.download_available,
                   download_path |-> res.download_path]]

\* lines 55-73 on the session record: the turn's result
Turned(state, inp) ==
    LET Finish(res) == Respond(res.state, res)
    IN  Bind(Finish, _orchestrate(add_message(state, "user", inp.message), inp))

\* process_message working on a copy of the record it looked up
process_message_on_a_copy(store, fresh, session_id, inp) ==
    LET found  == get_session(store, session_id)
        store1 == IF found = None THEN create_session(store, fresh) ELSE store
        sid    == IF found = None THEN fresh ELSE session_id
        Commit(t) ==
            [store |-> store1,
             created |-> found = None,
             calls |-> t.calls,
             stages |-> <<store1[sid].conversation_stage>> \o t.stages,
             response |-> t.response]
    IN  Bind(Commit, Turned(store1[sid], inp))

\* process_message registering the session it creates under the id it was
\* asked for
process_message_under_requested_id(store, fresh, session_id, inp) ==
    LET found  == get_session(store, session_id)
        store1 == IF found = None THEN create_session(store, session_id) ELSE store
        Commit(t) ==
            [store |-> [store1 EXCEPT ![session_id] = t.state],
             created |-> found = None,
             calls |-> t.calls,
             stages |-> <<store1[session_id].conversation_stage>> \o t.stages,
             response |-> t.response]
    IN  Bind(Commit, Turned(store1[session_id], inp))

\* process_message on records that share one conversation_history list
process_message_sharing_history(store, fresh, session_id, inp) ==
    LET found  == get_session(store, session_id)
        store1 == IF found = None THEN create_session(store, fresh) ELSE store
        sid    == IF found = None THEN fresh ELSE session_id
        Commit(t) ==
            [store |-> [id \in DOMAIN store1 |->
                          IF id = sid THEN t.state
                          ELSE [store1[id] EXCEPT !.conversation_history =
                                   t.state.conversation_history]],
             created |-> found = None,
             calls |-> t.calls,
             stages |-> <<store1[sid].conversation_stage>> \o t.stages,
             response |-> t.response]
    IN  Bind(Commit, Turned(store1[sid], inp))

\* MasterAgent.process_message on the store: the new store and the response
process_message(store, fresh, session_id, inp) ==
    LET found  == get_session(store, session_id)
        store1 == IF found = None THEN create_session(store, fresh) ELSE store
        sid    == IF found = None THEN fresh ELSE session_id
        Commit(t) ==
            [store |-> [store1 EXCEPT ![sid] = t.state],
             created |-> found = None,
             calls |-> t.calls,
             stages |-> <<store1[sid].conversation_stage>> \o t.stages,
             response |-> t.response]
    IN  Bind(Commit, Turned(store1[sid], inp))

WELCOME == <<"welcome">>

\* MasterAgent.start_session on the store
start_session(store, fresh) ==
    LET store1 == create_session(store, fresh)
        state  == add_message(store1[fresh], "assistant", WELCOME)
    IN  [store |-> [store1 EXCEPT ![fresh] = state],
         response |-> [session_id |-> state.session_id,
                       message |-> WELCOME,
                       stage |-> state.conversation_stage,
                       actions |-> <<>>,
                       download_available |-> "False",
                       download_path |-> None]]

(***************************************************************************)
(* The HTTP endpoints (backend/main.py).  A request either raises an       *)
(* HTTPException, reported as its status and detail, or answers "200".     *)
(***************************************************************************)
Whitespace == {" ", "\t", "\n"}

RECURSIVE LStrip(_)
LStrip(s) == IF s # <<>> /\ Head(s) \in Whitespace THEN LStrip(Tail(s)) ELSE s

RECURSIVE RStrip(_)
RStrip(s) ==
    IF s # <<>> /\ s[Len(s)] \in Whitespace
    THEN RStrip(SubSeq(s, 1, Len(s) - 1)) ELSE s

\* strip() that keeps its argument as it is
strip_nothing(s) == s

\* str.strip()
strip(s) == RStrip(LStrip(s))

\* lines 110-116: ChatResponse declares download_available: bool, and the
\* model validation accepts True and False; _handle_completed's None or path
\* string fails it after the turn was processed, and the request is answered
\* with status 500
ChatResponse(result) ==
    IF result.download_available \in {"True", "False"}
    THEN "200" ELSE "500 Internal Server Error"

\* chat leaving a request without id to process_message's own creation
chat_without_greeting(store, fresh, session_id, inp) ==
    IF strip(inp.message) = <<>>
    THEN [status |-> "400 Message cannot be empty", store |-> store, created |-> 0,
          calls |-> <<>>, stages |-> <<>>, response |-> None]
    ELSE LET sid == IF session_id = None THEN UnknownId ELSE session_id[1]
             Answer(r) ==
                 [status |-> "200", store |-> r.store,
                  created |-> IF r.created THEN 1 ELSE 0,
                  calls |-> <<"process_message">> \o r.calls,
                  stages |-> r.stages,
                  response |-> Some(r.response)]
         IN  Bind(Answer, process_message(store, fresh, sid, inp))

\* POST /api/chat: session_id is None (absent or "") or Some(id); created is
\* the number of sessions the request added to the store
chat(store, fresh, session_id, inp) ==
    IF strip(inp.message) = <<>>
    THEN [status |-> "400 Message cannot be empty", store |-> store, created |-> 0,
          calls |-> <<>>, stages |-> <<>>, response |-> None]
    ELSE LET started == session_id = None
             store1  == IF started THEN start_session(store, fresh).store ELSE store
             sid     == IF started THEN fresh ELSE session_id[1]
             fresh1  == IF started THEN fresh + 1 ELSE fresh
             Answer(r) ==
                 [status |-> ChatResponse(r.response), store |-> r.store,
                  created |-> (IF started THEN 1 ELSE 0) + (IF r.created THEN 1 ELSE 0),
                  calls |-> (IF started THEN <<"start_session">> ELSE <<>>)
                            \o <<"process_message">> \o r.calls,
                  stages |-> r.stages,
                  response |-> Some(r.response)]
         IN  Bind(Answer, process_message(store1, fresh1, sid, inp))

\* GET /api/session/{session_id}
get_session_endpoint(store, session_id) ==
    LET state == get_session(store, session_id)
    IN  IF state = None
        THEN [status |-> "404 Session not found", body |-> None]
        ELSE [status |-> "200",
              body |-> Some([session_id |-> session_id,
                             stage |-> state[1].conversation_stage,
                             history |-> state[1].conversation_history])]

\* GET /api/download/{session_id}; file_exists is os.path.exists of the path
download_sanction_letter(store, session_id, file_exists) ==
    LET state == get_session(store, session_id)
    IN  IF state = None
        THEN [status |-> "404 Session not found", body |-> None]
        ELSE IF state[1].sanction_letter_path = None
        THEN [status |-> "404 Sanction letter not generated", body |-> None]
        ELSE IF ~file_exists
        THEN [status |-> "404 Sanction letter file not found", body |-> None]
        ELSE [status |-> "200", body |-> state[1].sanction_letter_path]

(***************************************************************************)
(* Inputs of the model: what the user and the collaborators can supply.    *)
(***************************************************************************)
Hello == <<"h", "i">>

Messages ==
    { Hello,
      <<"1", "2", "1", "1", "5", "0", "0">>,
      <<"9", "0", "0">>,
      <<"v", "1", ".", "2", ".", "3">> }

\* the text of a message is read only by the digits-and-dots parse of
\* salary_collection; in the other stages it is only recorded: the greeting
\* takes two texts, and from then on one message stands for all
MessagesAt(stage) ==
    IF stage = "salary_collection" THEN Messages
    ELSE IF stage = "greeting" THEN {Hello, <<"1", "2", "1", "1", "5", "0", "0">>}
    ELSE {Hello}

ExtractNames    == {NoneStr, "Asha"}
ExtractPhones   == {NoneStr, DEMO_PHONE_NUMBER, "9876543214", "9123456780"}
ExtractAmounts  == {None, Some(600000), Some(2500000)}
ExtractTenures  == {None, Some(1)}
\* extract_loan_requirements always fills interest_rate: the prompt fixes it
\* to 11.5 and a missing value is replaced by DEFAULT_INTEREST_RATE = 11.5
ExtractRates    == {Some(115)}
ExtractSalaries == {None, Some(2000000)}

ExtractionData ==
    [customer_name : ExtractNames, phone_number : ExtractPhones,
     loan_amount : ExtractAmounts, tenure_months : ExtractTenures,
     interest_rate : ExtractRates, salary : ExtractSalaries]

\* data = {} : every data.get(...) is None
FailedExtraction ==
    [success |-> FALSE,
     data |-> [customer_name |-> NoneStr, phone_number |-> NoneStr,
               loan_amount |-> None, tenure_months |-> None,
               interest_rate |-> None, salary |-> None]]

Extractions ==
    {FailedExtraction} \cup {[success |-> TRUE, data |-> d] : d \in ExtractionData}

\* representative outcomes of random.randint(0, 900)
SyntheticScores == {0, 700}

Turn(user_message, extraction, draw, pdf_ok) ==
    [message |-> user_message, extraction |-> extraction,
     draw |-> draw, pdf_ok |-> pdf_ok]

\* The collaborators are consulted only on the paths that call them: the
\* extraction in collecting_info and salary_collection, randint when
\* verify_customer synthesizes a profile, the PDF generator when issuance
\* passes its parameter check.  Elsewhere one default stands for an outcome
\* that is never read; what the extraction would return is also varied where
\* no handler asks for it.
FullExtraction ==
    [success |-> TRUE,
     data |-> [customer_name |-> "Asha", phone_number |-> DEMO_PHONE_NUMBER,
               loan_amount |-> Some(600000), tenure_months |-> Some(1),
               interest_rate |-> Some(115), salary |-> Some(2000000)]]

\* salary_collection reads nothing of the extraction but success and salary:
\* the loan amount it carries is varied, the other fields are not
SalaryExtractions ==
    {FailedExtraction}
    \cup {[FullExtraction EXCEPT !.data.salary = sal, !.data.loan_amount = amt] :
             sal \in ExtractSalaries, amt \in {Some(600000), Some(2500000)}}

ExtractionsAt(stage) ==
    IF stage = "collecting_info" THEN Extractions
    ELSE IF stage = "salary_collection" THEN SalaryExtractions
    ELSE {FailedExtraction, FullExtraction}

ReachesKyc(state, extraction) ==
    \/ state.conversation_stage = "kyc_verification"
    \/ /\ state.conversation_stage = "collecting_info"
       /\ _get_missing_required_fields(MergeExtraction(state, extraction)) = <<>>

DrawsFor(state, extraction) ==
    LET phone == MergeExtraction(state, extraction).phone_number
    IN  IF /\ ReachesKyc(state, extraction)
           /\ phone # DEMO_PHONE_NUMBER
           /\ phone \notin DOMAIN MOCK_CUSTOMER_DATABASE
        THEN SyntheticScores ELSE {0}

PdfOutcomesFor(state, user_message, extraction, draw) ==
    IF \/ ReachesKyc(state, extraction)
       \/ state.conversation_stage
            \in {"underwriting", "salary_collection", "sanction_letter"}
    THEN IF Contains(_orchestrate(state, Turn(user_message, extraction, draw, TRUE)).actions,
                     "sanction_letter_generated")
         THEN BOOLEAN ELSE {TRUE}
    ELSE {TRUE}

\* the record a message for session_id is dispatched on
Target(store, fresh, session_id) ==
    IF session_id \in DOMAIN store THEN store[session_id]
    ELSE LoanApplicationState(fresh)

(***************************************************************************)
(* The state machine.                                                      *)
(***************************************************************************)
NoResponse ==
    [session_id |-> UnknownId, message |-> <<>>, stage |-> "greeting",
     actions |-> <<>>, download_available |-> "False", download_path |-> None]

NoCall == [args |-> <<>>, result |-> <<>>]

Init ==
    /\ sessions = [id \in {} |-> LoanApplicationState(id)]
    /\ issued = 0
    /\ processed = 0
    /\ lastResponse = NoResponse
    /\ lastCalls = <<>>
    /\ lastStages = <<>>
    /\ pure = NoCall

\* POST /api/start -> MasterAgent.start_session
StartSession ==
    /\ issued < MaxSessions
    /\ LET r == start_session(sessions, issued + 1)
       IN  /\ sessions' = r.store
           /\ lastResponse' = r.response
    /\ issued' = issued + 1
    /\ lastCalls' = <<"start_session">>
    /\ lastStages' = <<>>
    /\ UNCHANGED <<processed, pure>>

\* MasterAgent.process_message(session_id, user_message)
ProcessMessage(session_id) ==
    /\ processed < MaxMessages
    /\ session_id \notin DOMAIN sessions => issued < MaxSessions
    /\ LET state == Target(sessions, issued + 1, session_id)
       IN  \E user_message \in MessagesAt(state.conversation_stage) :
           \E extraction \in ExtractionsAt(state.conversation_stage) :
           \E draw \in DrawsFor(state, extraction) :
           \E pdf_ok \in PdfOutcomesFor(add_message(state, "user", user_message),
                                        user_message, extraction, draw) :
           \E r \in {process_message(sessions, issued + 1, session_id,
                                     Turn(user_message, extraction, draw, pdf_ok))} :
              /\ sessions' = r.store
              /\ issued' = IF r.created THEN issued + 1 ELSE issued
              /\ lastResponse' = r.response
              /\ lastCalls' = <<"process_message">> \o r.calls
              /\ lastStages' = r.stages
    /\ processed' = processed + 1
    /\ UNCHANGED pure

Next ==
    \/ StartSession
    \/ \E session_id \in DOMAIN sessions \cup {UnknownId} : ProcessMessage(session_id)

Spec == Init /\ [][Next]_vars

(***************************************************************************)
(* Direct calls of UnderwritingAgent.evaluate: the arguments are drawn in  *)
(* the initial state and the call stores its result.                       *)
(***************************************************************************)
\* with limit 200000: below, at the limit, in the salary band, at twice the
\* limit, just above it, far above it
EvalAmounts  ==
    {None, Some(0), Some(-100000), Some(100000), Some(200000), Some(240000),
     Some(400000), Some(400001), Some(500000)}
EvalTenures  == {None, Some(0), Some(-1), Some(1)}
EvalRates    == {None, Some(0), Some(-115), Some(115)}
EvalScores   == {None, Some(0), Some(1), Some(699), Some(700), Some(800)}
EvalLimits   == {None, Some(0), Some(200000)}
\* for a loan of 240000 (EMI 242300.00): 484600 gives a DTI ratio of 50.00
\* and 484503 one of 50.01
EvalSalaries == {None, Some(0), Some(300000), Some(484503), Some(484600), Some(1000000)}

EvalArgs ==
    [loan_amount : EvalAmounts, tenure_months : EvalTenures,
     interest_rate : EvalRates, credit_score : EvalScores,
     pre_approved_limit : EvalLimits, salary : EvalSalaries]

EvalInit ==
    /\ sessions = [id \in {} |-> LoanApplicationState(id)]
    /\ issued = 0
    /\ processed = 0
    /\ lastResponse = NoResponse
    /\ lastCalls = <<>>
    /\ lastStages = <<>>
    /\ pure \in {[args |-> a, result |-> <<>>] : a \in EvalArgs}

Evaluate ==
    /\ pure.result = <<>>
    /\ pure' = [pure EXCEPT !.result =
                  <<evaluate(pure.args.loan_amount, pure.args.tenure_months,
                             pure.args.interest_rate, pure.args.credit_score,
                             pure.args.pre_approved_limit, pure.args.salary)>>]
    /\ UNCHANGED <<sessions, issued, processed, lastResponse, lastCalls, lastStages>>

SpecEval == EvalInit /\ [][Evaluate]_vars

(***************************************************************************)
(* Properties.                                                             *)
(***************************************************************************)
\* the session the last operation worked on
Last == sessions[lastResponse.session_id]
Answered == lastResponse.session_id \in DOMAIN sessions
\* the last operation was a process_message dispatched in the given stage
DispatchedIn(stage) == Answered /\ lastStages # <<>> /\ lastStages[1] = stage

\* the decision the evaluator gives on the stored terms of a session
Reevaluated(state) ==
    evaluate(state.loan_amount, state.tenure_months, state.interest_rate,
             state.credit_score, state.pre_approved_limit, state.salary)

Positive(x) == x # None /\ x[1] > 0

\* C1: evaluate rejects every input whose loan_amount, tenure_months,
\* interest_rate and pre_approved_limit are present and positive and whose
\* credit_score is an integer in 0..699, whatever the amount and the salary.
C1_CreditGateRejects ==
    (/\ pure.result # <<>>
     /\ Positive(pure.args.loan_amount) /\ Positive(pure.args.tenure_months)
     /\ Positive(pure.args.interest_rate) /\ Positive(pure.args.pre_approved_limit)
     /\ pure.args.credit_score # None
     /\ pure.args.credit_score[1] \in 0..699)
    => pure.result[1].decision = "rejected"

\* C2: when the underwriting handler has run and the evaluator's result on
\* the session's terms is pending without requires_salary, the session is in
\* stage underwriting; it is in salary_collection after an evaluation only
\* if that result is pending with requires_salary.
C2_PendingWithoutSalaryRequestStays ==
    (Answered /\ Contains(lastCalls, "evaluate"))
    => /\ (Reevaluated(Last).decision = "pending" /\ ~Reevaluated(Last).requires_salary)
            => Last.conversation_stage = "underwriting"
       /\ Last.conversation_stage = "salary_collection"
            => (Reevaluated(Last).decision = "pending" /\ Reevaluated(Last).requires_salary)

\* C3: when document issuance fails in the sanction_letter stage, the
\* session is in stage completed at the end of that turn and the response
\* carries the apology.
C3_IssuanceFailureCompletes ==
    (/\ Answered
     /\ Contains(lastCalls, "generate_sanction_letter")
     /\ ~Contains(lastResponse.actions, "sanction_letter_generated"))
    => /\ Last.conversation_stage = "completed"
       /\ Contains(lastResponse.message, "sanction_letter_error")

\* C4: between two messages, a session whose underwriting_status is
\* requires_salary has no salary.
C4_RequiresSalaryImpliesNoSalary ==
    \A id \in DOMAIN sessions :
        sessions[id].underwriting_status = "requires_salary"
        => sessions[id].salary = None

\* C5: final_decision, once set, is never changed or cleared, and it is set
\* only by a process_message on that session that ran the underwriting
\* handler; a session is created without a decision.
C5_FinalDecisionStep ==
    \A id \in DOMAIN sessions' :
        LET old == IF id \in DOMAIN sessions
                   THEN sessions[id].final_decision ELSE NoneStr
            new == sessions'[id].final_decision
        IN  /\ old # NoneStr => new = old
            /\ new # old => /\ new \in {"approved", "rejected"}
                            /\ lastResponse'.session_id = id
                            /\ Contains(lastCalls', "_handle_underwriting")

C5_FinalDecisionAssignedOnce == [][C5_FinalDecisionStep]_vars

C5_DecisionSurvivedAMessage ==
    /\ Answered
    /\ Last.final_decision = "approved"
    /\ Contains(lastCalls, "_handle_completed")

StageGraph ==
    { <<"greeting", "collecting_info">>,
      <<"collecting_info", "kyc_verification">>,
      <<"kyc_verification", "underwriting">>,
      <<"underwriting", "sanction_letter">>,
      <<"underwriting", "completed">>,
      <<"underwriting", "salary_collection">>,
      <<"salary_collection", "underwriting">>,
      <<"sanction_letter", "completed">> }

\* C6: every assignment process_message makes to conversation_stage goes
\* along an edge of the stage graph: the stage a session had before a step,
\* the stages assigned during it and the stage it has afterwards form a path
\* of the graph, and a session no message was dispatched to keeps its stage.
C6_StageStep ==
    \A id \in DOMAIN sessions' :
        LET old == IF id \in DOMAIN sessions
                   THEN sessions[id].conversation_stage ELSE "greeting"
            new == sessions'[id].conversation_stage
        IN  IF lastResponse'.session_id = id /\ lastStages' # <<>>
            THEN /\ lastStages'[1] = old
                 /\ lastStages'[Len(lastStages')] = new
                 /\ \A i \in 1..(Len(lastStages') - 1) :
                        <<lastStages'[i], lastStages'[i + 1]>> \in StageGraph
            ELSE new = old

C6_StageChangesFollowGraph == [][C6_StageStep]_vars

C6_ChainedToSalaryAndBack ==
    /\ Answered
    /\ lastStages = <<"salary_collection", "underwriting", "sanction_letter", "completed">>

\* C7: a step taken while a session is in stage completed leaves the stage
\* at completed and every field as it was, except that a message processed
\* for the session appends the user message and the reply to its history.
C7_CompletedStep ==
    \A id \in DOMAIN sessions :
        sessions[id].conversation_stage = "completed"
        => LET old == sessions[id]
               new == sessions'[id]
               n   == Len(old.conversation_history)
           IN  \/ new = old
               \/ /\ new = [old EXCEPT !.conversation_history = new.conversation_history]
                  /\ Len(new.conversation_history) = n + 2
                  /\ SubSeq(new.conversation_history, 1, n) = old.conversation_history
                  /\ new.conversation_history[n + 1].role = "user"
                  /\ new.conversation_history[n + 2] =
                         [role |-> "assistant", content |-> lastResponse'.message]

C7_CompletedIsTerminal == [][C7_CompletedStep]_vars

C7_FollowUpAfterRejection ==
    /\ Answered
    /\ Last.final_decision = "rejected"
    /\ lastCalls = <<"process_message", "_handle_completed">>

AllRequiredPresent(state) ==
    /\ TruthyStr(state.customer_name) /\ TruthyStr(state.phone_number)
    /\ Truthy(state.loan_amount) /\ Truthy(state.tenure_months)

\* C8: after a message dispatched in collecting_info, if the four required
\* fields are present the session has left collecting_info and the turn ran
\* both verification and underwriting; otherwise it is still in
\* collecting_info and the turn ran neither.
C8_CollectionCompletesOrStays ==
    DispatchedIn("collecting_info")
    => IF AllRequiredPresent(Last)
       THEN /\ Last.conversation_stage # "collecting_info"
            /\ Contains(lastCalls, "verify_customer")
            /\ Contains(lastCalls, "evaluate")
       ELSE /\ Last.conversation_stage = "collecting_info"
            /\ ~Contains(lastCalls, "verify_customer")
            /\ ~Contains(lastCalls, "evaluate")

C8_CollectedAndEvaluated ==
    /\ DispatchedIn("collecting_info")
    /\ AllRequiredPresent(Last)
    /\ Contains(lastCalls, "evaluate")

\* C9: the stage of the response equals the conversation_stage stored for
\* the session when the call returns.
C9_ResponseStageIsStoredStage ==
    Answered => lastResponse.stage = Last.conversation_stage

C9_ChainedTurnAnswered ==
    /\ Answered
    /\ Len(lastStages) = 5
    /\ lastResponse.stage = "completed"

UserMessages(state) ==
    Len(SelectSeq(state.conversation_history, LAMBDA m : m.role = "user"))

\* C10: a session that has processed no user message is in stage greeting
\* with every field at its default (no collected or derived value, no
\* decision, underwriting_status pending); a session that has processed
\* exactly one is in stage collecting_info with every other field still at
\* its default.
C10_FreshThenCollecting ==
    \A id \in DOMAIN sessions :
        LET state == sessions[id]
            blank == [LoanApplicationState(id) EXCEPT
                        !.conversation_history = state.conversation_history]
        IN  /\ UserMessages(state) = 0 => state = blank
            /\ UserMessages(state) = 1
                 => state = [blank EXCEPT !.conversation_stage = "collecting_info"]

C10_GreetedOnDemand ==
    /\ Answered
    /\ lastStages = <<"greeting", "collecting_info">>
    /\ Len(Last.conversation_history) = 2
    /\ Last.conversation_history[1].content # Hello

\* the user message of the last process_message, as recorded in the history
LastUserMessage ==
    Last.conversation_history[Len(Last.conversation_history) - 1].content

\* float(cleaned) of a message, None when cleaned is empty or float raises
ParsedSalary(user_message) ==
    IF Cleaned(user_message) # <<>> THEN ParseFloat(Cleaned(user_message)) ELSE None

\* C11: after a message dispatched in salary_collection: a salary that the
\* digits-and-dots parse finds makes the turn evaluate; a turn that
\* evaluates has stored a salary (the parsed one unless the extraction gave
\* one), went through stage underwriting, and leaves in state.emi the EMI
\* the evaluator returns on the stored terms and that salary; a turn that
\* does not evaluate leaves the stage at salary_collection and the salary
\* null.
C11_SalaryTurnReevaluates ==
    DispatchedIn("salary_collection")
    => IF Contains(lastCalls, "evaluate")
       THEN /\ Last.salary # None
            /\ Last.salary = ParsedSalary(LastUserMessage)
                 \/ Last.salary \in ExtractSalaries
            /\ Len(lastStages) >= 2 /\ lastStages[2] = "underwriting"
            /\ Last.emi = Reevaluated(Last).emi
       ELSE /\ ParsedSalary(LastUserMessage) = None
            /\ Last.conversation_stage = "salary_collection"
            /\ Last.salary = None
            /\ lastStages = <<"salary_collection">>

\* C12: a session verified with the demo phone number has credit_score 800
\* and pre_approved_limit 1,000,000, and if its loan_amount is positive and
\* at most 1,000,000 it is approved and past underwriting (never in
\* salary_collection); the turn that verified it was dispatched in
\* collecting_info and did not pass through salary_collection; a loan of
\* exactly 1,000,000 is approved on the demo profile.
C12_DemoNumberApproves ==
    /\ \A id \in DOMAIN sessions :
         LET state == sessions[id]
         IN  (state.kyc_verified /\ state.phone_number = "7982130057")
             => /\ state.credit_score = Some(800)
                /\ state.pre_approved_limit = Some(1000000)
                /\ (state.loan_amount[1] > 0 /\ state.loan_amount[1] <= 1000000)
                     => /\ state.final_decision = "approved"
                        /\ state.underwriting_status = "approved"
                        /\ state.emi # None /\ state.emi[1] > 0
                        /\ state.conversation_stage \in {"sanction_letter", "completed"}
    /\ (Answered /\ Contains(lastCalls, "verify_customer")
          /\ Last.phone_number = "7982130057")
       => /\ lastStages[1] = "collecting_info"
          /\ ~Contains(lastStages, "salary_collection")
    /\ LET profile == verify_customer("7982130057", "Asha", 0)
       IN  evaluate(Some(1000000), Some(1), Some(115), Some(profile.credit_score),
                    Some(profile.pre_approved_limit), None).decision = "approved"

C12_DemoApprovedInOneTurn ==
    /\ Answered
    /\ Contains(lastCalls, "verify_customer")
    /\ Last.phone_number = "7982130057"
    /\ Last.loan_amount = Some(600000)
    /\ Last.final_decision = "approved"

\* C13: a session whose verification gave credit_score 650 is, whatever its
\* loan terms and salary, in stage completed with final_decision rejected,
\* no EMI and no sanction letter, and its rejection reason is the credit
\* score reason naming the score and the minimum 700.
C13_Score650Rejected ==
    \A id \in DOMAIN sessions :
        LET state == sessions[id]
        IN  state.credit_score = Some(650)
            => /\ state.conversation_stage = "completed"
               /\ state.final_decision = "rejected"
               /\ state.underwriting_status = "rejected"
               /\ state.emi = None
               /\ state.sanction_letter_path = None
               /\ state.rejection_reason = <<"Credit score below minimum", 650, 700>>

C13_DirectoryNumberRejected ==
    /\ Answered
    /\ Contains(lastCalls, "verify_customer")
    /\ Last.phone_number = "9876543214"
    /\ Last.credit_score = Some(650)
    /\ Last.salary = Some(2000000)
    /\ Last.final_decision = "rejected"

\* a direct call of evaluate has returned, with all loan terms and the
\* credit profile present and the credit gate passed
EvaluatedPastGate ==
    /\ pure.result # <<>>
    /\ Truthy(pure.args.loan_amount) /\ Truthy(pure.args.tenure_months)
    /\ Truthy(pure.args.interest_rate) /\ Truthy(pure.args.pre_approved_limit)
    /\ pure.args.credit_score # None /\ pure.args.credit_score[1] >= 700

InSalaryBand ==
    /\ pure.args.loan_amount[1] > pure.args.pre_approved_limit[1]
    /\ pure.args.loan_amount[1] <= 2 * pure.args.pre_approved_limit[1]

\* C14: for credit_score >= 700 and all terms present, evaluate approves a
\* loan_amount up to and including the pre-approved limit whatever the
\* salary; between the limit and twice the limit (inclusive) it never
\* rejects on the limit: pending with requires_salary when salary is absent,
\* decided with a dti_ratio when it is present; above twice the limit it
\* rejects with emi null whatever the salary.
C14_LimitBoundaries ==
    EvaluatedPastGate
    => LET amount == pure.args.loan_amount[1]
           limit  == pure.args.pre_approved_limit[1]
           result == pure.result[1]
       IN  /\ amount <= limit
                => /\ result.decision = "approved"
                   /\ result.emi # None /\ ~result.requires_salary
           /\ (amount > limit /\ amount <= 2 * limit /\ pure.args.salary = None)
                => /\ result.decision = "pending"
                   /\ result.requires_salary
                   /\ result.emi # None
           /\ (amount > limit /\ amount <= 2 * limit /\ pure.args.salary # None)
                => /\ result.decision \in {"approved", "rejected"}
                   /\ result.dti_ratio # None
                   /\ result.reason \in {<<"Approved on salary verification">>,
                                         <<"DTI ratio too high">>}
           /\ amount > 2 * limit
                => /\ result.decision = "rejected"
                   /\ result.emi = None
                   /\ result.reason = <<"Exceeds maximum allowed limit", 2 * limit>>

C14_AtTwiceTheLimit ==
    /\ EvaluatedPastGate
    /\ pure.args.loan_amount[1] = 2 * pure.args.pre_approved_limit[1]
    /\ pure.args.salary = None
    /\ pure.result[1].decision = "pending"

\* C15: in the salary band with a salary supplied, evaluate attaches the
\* DTI ratio round(emi / salary * 100, 2) (100.0 for a salary <= 0), approves
\* when it is at most 50.0 and rejects when it is above; for EMI 242300.00 a
\* salary of 484600 (50.00) approves and one of 484503 (50.01) rejects.
C15_DtiBoundary ==
    (EvaluatedPastGate /\ InSalaryBand /\ pure.args.salary # None)
    => LET salary == pure.args.salary[1]
           result == pure.result[1]
       IN  /\ result.emi # None /\ result.dti_ratio # None
           /\ result.dti_ratio[1] =
                 IF salary <= 0 THEN 10000
                 ELSE MulDivRound(result.emi[1], 100, salary)
           /\ result.decision =
                 IF result.dti_ratio[1] <= 5000 THEN "approved" ELSE "rejected"
           /\ salary <= 0 => result.decision = "rejected"
           /\ (result.emi[1] = 24230000 /\ salary = 484600)
                => (result.dti_ratio[1] = 5000 /\ result.decision = "approved")
           /\ (result.emi[1] = 24230000 /\ salary = 484503)
                => (result.dti_ratio[1] = 5001 /\ result.decision = "rejected")

C15_ApprovedAtExactlyFifty ==
    /\ EvaluatedPastGate /\ InSalaryBand
    /\ pure.args.salary = Some(484600)
    /\ pure.result[1].dti_ratio = Some(5000)
    /\ pure.result[1].decision = "approved"

\* C16: when evaluate returns pending with requires_salary, the
\* required_min_salary is emi / 0.5 (twice the EMI), the DTI ratio of the
\* EMI against it is 50.0, and, when it is a whole number of rupees,
\* evaluating the same terms with that salary approves.
C16_RequiredSalaryApproves ==
    (pure.result # <<>> /\ pure.result[1].decision = "pending"
       /\ pure.result[1].requires_salary)
    => LET result == pure.result[1]
           emi    == result.emi[1]
           needed == result.required_min_salary[1]
       IN  /\ result.emi # None /\ result.required_min_salary # None
           /\ needed = 2 * emi
           \* calculate_dti_ratio(emi, needed) with both amounts in paise
           /\ (IF needed <= 0
               THEN DTI_SENTINEL
               ELSE MulDivRound(10000, emi \div GCD(emi, needed),
                                needed \div GCD(emi, needed))) = 5000
           /\ needed % 100 = 0
                => /\ calculate_dti_ratio(emi, needed \div 100) = 5000
                   /\ evaluate(pure.args.loan_amount, pure.args.tenure_months,
                               pure.args.interest_rate, pure.args.credit_score,
                               pure.args.pre_approved_limit,
                               Some(needed \div 100)).decision = "approved"

C16_WholeRupeeRequirement ==
    /\ pure.result # <<>>
    /\ pure.result[1].decision = "pending"
    /\ pure.result[1].requires_salary
    /\ pure.result[1].required_min_salary = Some(48460000)

\* C17: after a turn in which document issuance was attempted and failed,
\* the session still has final_decision approved and underwriting_status
\* approved, its sanction_letter_path is null, and the response carries the
\* message that states the approval and the issuance problem, reports
\* download_available false and no download path.
C17_ApprovalSurvivesIssuanceFailure ==
    (/\ Answered
     /\ Contains(lastCalls, "generate_sanction_letter")
     /\ ~Contains(lastResponse.actions, "sanction_letter_generated"))
    => /\ Last.final_decision = "approved"
       /\ Last.underwriting_status = "approved"
       /\ Last.sanction_letter_path = None
       /\ Last.emi # None
       /\ Contains(lastResponse.message, "sanction_letter_error")
       /\ lastResponse.actions = <<"sanction_letter_error">>
       /\ lastResponse.download_available = "False"
       /\ lastResponse.download_path = None
       /\ Last.conversation_history[Len(Last.conversation_history)] =
              [role |-> "assistant", content |-> lastResponse.message]

C17_IssuanceFailedAfterSalary ==
    /\ Answered
    /\ lastStages = <<"salary_collection", "underwriting", "sanction_letter">>
    /\ lastResponse.actions = <<"sanction_letter_error">>
    /\ Last.final_decision = "approved"

(***************************************************************************)
(* Direct calls of VerificationAgent.verify_customer: the arguments and    *)
(* the value random.randint returns are drawn in the initial state.        *)
(***************************************************************************)
VerifyPhones == {NoneStr, "", DEMO_PHONE_NUMBER, "9123456780"} \cup DirectoryPhones
VerifyNames  == {NoneStr, "Asha"}
VerifyDraws  == {0, 649, 650, 699, 700, 749, 750, 799, 800, 900}

VerifyArgs ==
    [phone_number : VerifyPhones, customer_name : VerifyNames, draw : VerifyDraws]

VerifyInit ==
    /\ sessions = [id \in {} |-> LoanApplicationState(id)]
    /\ issued = 0
    /\ processed = 0
    /\ lastResponse = NoResponse
    /\ lastCalls = <<>>
    /\ lastStages = <<>>
    /\ pure \in {[args |-> a, result |-> <<>>] : a \in VerifyArgs}

Verify ==
    /\ pure.result = <<>>
    /\ pure' = [pure EXCEPT !.result =
                  <<verify_customer(pure.args.phone_number, pure.args.customer_name,
                                    pure.args.draw)>>]
    /\ UNCHANGED <<sessions, issued, processed, lastResponse, lastCalls, lastStages>>

SpecVerify == VerifyInit /\ [][Verify]_vars

\* the score-tier table of the synthesized limit
TierLimit(score) ==
    CASE score >= 800 -> 500000
      [] score >= 750 /\ score < 800 -> 400000
      [] score >= 700 /\ score < 750 -> 300000
      [] score >= 650 /\ score < 700 -> 200000
      [] score < 650 -> 100000

\* C18: verify_customer always reports success with both verification
\* flags true; the demo number yields score 800 and limit 1,000,000
\* whatever randint and the name are; otherwise a directory number yields
\* its entry's score, limit and name; otherwise (a null or empty number
\* included) the score is the randint draw, within 0..900, and the limit is
\* the one the tier table gives for it.
C18_VerificationResolves ==
    pure.result # <<>>
    => LET phone  == pure.args.phone_number
           result == pure.result[1]
       IN  /\ result.success /\ result.phone_verified /\ result.address_verified
           /\ IF phone = "7982130057"
              THEN /\ result.credit_score = 800
                   /\ result.pre_approved_limit = 1000000
              ELSE IF phone \in {"9876543210", "9876543211", "9876543212",
                                 "9876543213", "9876543214"}
              THEN /\ result.credit_score = MOCK_CUSTOMER_DATABASE[phone].credit_score
                   /\ result.pre_approved_limit =
                          MOCK_CUSTOMER_DATABASE[phone].pre_approved_limit
                   /\ result.customer_name = MOCK_CUSTOMER_DATABASE[phone].name
                   /\ phone = "9876543214"
                        => /\ result.credit_score = 650
                           /\ result.pre_approved_limit = 150000
                           /\ result.customer_name = "Vikram Singh"
                   /\ phone = "9876543210"
                        => /\ result.credit_score = 750
                           /\ result.pre_approved_limit = 300000
                           /\ result.customer_name = "Rahul Sharma"
              ELSE /\ result.credit_score = pure.args.draw
                   /\ result.credit_score \in 0..900
                   /\ result.pre_approved_limit = TierLimit(result.credit_score)
                   /\ result.customer_name =
                          IF pure.args.customer_name \in {NoneStr, ""}
                          THEN "Valued Customer" ELSE pure.args.customer_name

C18_SynthesizedForNullNumber ==
    /\ pure.result # <<>>
    /\ pure.args.phone_number = NoneStr
    /\ pure.result[1].credit_score = 750
    /\ pure.result[1].pre_approved_limit = 400000

(***************************************************************************)
(* Direct calls of LoanCalculator.calculate_emi and calculate_dti_ratio:   *)
(* the arguments are drawn in the initial state, each call stores its      *)
(* result.                                                                 *)
(***************************************************************************)
CalcPrincipals == {-100000, 0, 100000}
CalcRates      == {-115, 0, 115}
CalcTenures    == {-1, 0, 1}
\* EMIs in paise: -1.00, 0, 25000.00
CalcEmis       == {-100, 0, 2500000}
CalcSalaries   == {-50000, 0, 50000}

CalcArgs ==
    [principal : CalcPrincipals, annual_rate : CalcRates, tenure_months : CalcTenures,
     emi : CalcEmis, monthly_salary : CalcSalaries]

NotCalled == [emi |-> None, dti_ratio |-> None]

CalcInit ==
    /\ sessions = [id \in {} |-> LoanApplicationState(id)]
    /\ issued = 0
    /\ processed = 0
    /\ lastResponse = NoResponse
    /\ lastCalls = <<>>
    /\ lastStages = <<>>
    /\ pure \in {[args |-> a, result |-> NotCalled] : a \in CalcArgs}

CalculateEmi ==
    /\ pure.result.emi = None
    /\ pure' = [pure EXCEPT !.result.emi =
                  Some(calculate_emi(pure.args.principal, pure.args.annual_rate,
                                     pure.args.tenure_months))]
    /\ UNCHANGED <<sessions, issued, processed, lastResponse, lastCalls, lastStages>>

CalculateDtiRatio ==
    /\ pure.result.dti_ratio = None
    /\ pure' = [pure EXCEPT !.result.dti_ratio =
                  Some(calculate_dti_ratio(pure.args.emi, pure.args.monthly_salary))]
    /\ UNCHANGED <<sessions, issued, processed, lastResponse, lastCalls, lastStages>>

CalcNext == CalculateEmi \/ CalculateDtiRatio

SpecCalc == CalcInit /\ [][CalcNext]_vars

\* C19: calculate_emi returns 0 when principal, annual rate or tenure is
\* <= 0 and never a negative value; calculate_dti_ratio returns 100.0 when
\* the monthly salary is <= 0, whatever the EMI; and
\* calculate_dti_ratio(25000, 50000) is 50.0.
C19_CalculatorGuards ==
    /\ pure.result.emi # None
         => /\ (pure.args.principal <= 0 \/ pure.args.annual_rate <= 0
                  \/ pure.args.tenure_months <= 0)
                 => pure.result.emi[1] = 0
            /\ pure.result.emi[1] >= 0
            /\ (pure.args.principal > 0 /\ pure.args.annual_rate > 0
                  /\ pure.args.tenure_months > 0)
                 => pure.result.emi[1] > 0
    /\ pure.result.dti_ratio # None
         => /\ pure.args.monthly_salary <= 0 => pure.result.dti_ratio[1] = 10000
            /\ (pure.args.emi = 2500000 /\ pure.args.monthly_salary = 50000)
                 => pure.result.dti_ratio[1] = 5000

C19_NoSalaryNegativeEmi ==
    /\ pure.result.emi = Some(0)
    /\ pure.args.annual_rate = 0
    /\ pure.args.emi < 0
    /\ pure.args.monthly_salary = 0
    /\ pure.result.dti_ratio = Some(10000)

(***************************************************************************)
(* The StateManager driven directly: sessions are created, looked up and   *)
(* deleted, and the orchestrator works on the record a lookup returns.     *)
(* pure holds the last store operation, its id and what it returned.       *)
(***************************************************************************)
StoreCreate ==
    /\ issued < MaxStoreIds
    /\ sessions' = create_session(sessions, issued + 1)
    /\ issued' = issued + 1
    /\ pure' = [args |-> <<"create_session", issued + 1>>,
                result |-> <<sessions'[issued + 1]>>]
    /\ UNCHANGED <<processed, lastResponse, lastCalls, lastStages>>

StoreGet(session_id) ==
    /\ pure' = [args |-> <<"get_session", session_id>>,
                result |-> get_session(sessions, session_id)]
    /\ UNCHANGED <<sessions, issued, processed, lastResponse, lastCalls, lastStages>>

StoreDelete(session_id) ==
    /\ sessions' = delete_session(sessions, session_id).store
    /\ pure' = [args |-> <<"delete_session", session_id>>,
                result |-> <<delete_session(sessions, session_id).deleted>>]
    /\ UNCHANGED <<issued, processed, lastResponse, lastCalls, lastStages>>

\* a process_message on a message that says nothing, for a stored session
\* or for an id the store does not hold: id 0, which was never issued, or a
\* deleted one
StoreTurn(session_id) ==
    /\ session_id <= issued
    /\ session_id \notin DOMAIN sessions => issued < MaxStoreIds
    /\ processed < MaxMessages
    /\ \E r \in {process_message(sessions, issued + 1, session_id,
                                 Turn(Hello, FailedExtraction, 0, TRUE))} :
          /\ sessions' = r.store
          /\ lastResponse' = r.response
          /\ lastCalls' = <<"process_message">> \o r.calls
          /\ lastStages' = r.stages
    /\ processed' = processed + 1
    /\ pure' = [args |-> <<"process_message", session_id>>, result |-> <<>>]
    /\ issued' = IF session_id \in DOMAIN sessions THEN issued ELSE issued + 1

StoreNext ==
    \/ StoreCreate
    \/ \E session_id \in 0..MaxStoreIds : StoreGet(session_id)
    \/ \E session_id \in 0..MaxStoreIds : StoreDelete(session_id)
    \/ \E session_id \in 0..MaxStoreIds : StoreTurn(session_id)

SpecStore == Init /\ [][StoreNext]_vars

\* C20: create_session returns a record in stage greeting whose id is not
\* a key of the store, registers it under that id and touches no other
\* record; get_session returns the stored record of a key, so that after a
\* process_message the record the store holds carries the turn's messages
\* and stage; get_session of an id that was never issued or was deleted
\* returns None, and a deleted id never comes back.
C20_StoreStep ==
    LET op == pure'.args[1]
        id == pure'.args[2]
    IN  /\ op = "create_session"
             => /\ id \notin DOMAIN sessions
                /\ id \notin 1..issued
                /\ DOMAIN sessions' = DOMAIN sessions \cup {id}
                /\ pure'.result[1].session_id = id
                /\ pure'.result[1].conversation_stage = "greeting"
                /\ sessions'[id] = pure'.result[1]
                /\ get_session(sessions', id) = pure'.result
                /\ \A other \in DOMAIN sessions : sessions'[other] = sessions[other]
        /\ op = "get_session"
             => /\ sessions' = sessions
                /\ (id \notin 1..issued \/ id \notin DOMAIN sessions)
                     => pure'.result = None
                /\ id \in DOMAIN sessions => pure'.result = <<sessions[id]>>
        /\ (op = "process_message" /\ id \in DOMAIN sessions)
             => LET before == sessions[id].conversation_history
                    after  == sessions'[id].conversation_history
                IN  /\ Len(after) = Len(before) + 2
                    /\ after[Len(after)] =
                         [role |-> "assistant", content |-> lastResponse'.message]
                    /\ sessions'[id].conversation_stage = lastResponse'.stage
                    /\ get_session(sessions', id) = <<sessions'[id]>>
        /\ op = "delete_session"
             => /\ id \notin DOMAIN sessions'
                /\ get_session(sessions', id) = None
                /\ \A other \in DOMAIN sessions \ {id} : sessions'[other] = sessions[other]
        /\ \A gone \in 1..issued :
              gone \notin DOMAIN sessions => gone \notin DOMAIN sessions'
        /\ \A key \in DOMAIN sessions' : sessions'[key].session_id = key

C20_StoreIdentity == [][C20_StoreStep]_vars

C20_LookedUpAfterTurnAndDelete ==
    /\ pure.args = <<"get_session", 2>>
    /\ pure.result # None
    /\ Len(pure.result[1].conversation_history) = 4
    /\ pure.result[1].conversation_stage = "collecting_info"
    /\ issued = 3
    /\ DOMAIN sessions = {2, 3}

(***************************************************************************)
(* The service behind its HTTP endpoints.  pure holds the last request     *)
(* (endpoint, session id, message) and the status it was answered with.    *)
(***************************************************************************)
ApiMessages == {Hello, <<>>, <<" ", "\t">>}

ApiExtractions == {FailedExtraction, FullExtraction}

ApiIds == DOMAIN sessions \cup {UnknownId}

Request(endpoint, session_id, message, status) ==
    [args |-> <<endpoint, session_id, message>>, result |-> <<status>>]

ApiStart ==
    /\ issued < MaxApiSessions
    /\ LET r == start_session(sessions, issued + 1)
       IN  /\ sessions' = r.store
           /\ lastResponse' = r.response
    /\ issued' = issued + 1
    /\ lastCalls' = <<"start_session">>
    /\ lastStages' = <<>>
    /\ pure' = Request("start", None, <<>>, "200")
    /\ UNCHANGED processed

ApiChat(session_id) ==
    /\ processed < MaxMessages
    /\ (session_id = None \/ session_id[1] \notin DOMAIN sessions)
          => issued < MaxApiSessions
    /\ LET state == IF session_id = None
                    THEN start_session(sessions, issued + 1).store[issued + 1]
                    ELSE Target(sessions, issued + 1, session_id[1])
       IN  \E user_message \in ApiMessages :
           \E extraction \in ApiExtractions :
           \E draw \in DrawsFor(state, extraction) :
           \E pdf_ok \in PdfOutcomesFor(add_message(state, "user", user_message),
                                        user_message, extraction, draw) :
           \E r \in {chat(sessions, issued + 1, session_id,
                          Turn(user_message, extraction, draw, pdf_ok))} :
              /\ sessions' = r.store
              /\ issued' = issued + r.created
              /\ processed' = IF r.response # None THEN processed + 1 ELSE processed
              /\ lastResponse' = IF r.response # None THEN r.response[1] ELSE lastResponse
              /\ lastCalls' = IF r.response # None THEN r.calls ELSE lastCalls
              /\ lastStages' = IF r.response # None THEN r.stages ELSE lastStages
              /\ pure' = Request("chat", session_id, user_message, r.status)

ApiGetSession(session_id) ==
    /\ pure' = Request("session", Some(session_id), <<>>,
                       get_session_endpoint(sessions, session_id).status)
    /\ UNCHANGED <<sessions, issued, processed, lastResponse, lastCalls, lastStages>>

ApiDownload(session_id) ==
    /\ \E file_exists \in BOOLEAN :
          pure' = Request("download", Some(session_id), <<>>,
                          download_sanction_letter(sessions, session_id, file_exists).status)
    /\ UNCHANGED <<sessions, issued, processed, lastResponse, lastCalls, lastStages>>

ApiNext ==
    \/ ApiStart
    \/ \E session_id \in {None} \cup {Some(id) : id \in ApiIds} : ApiChat(session_id)
    \/ \E session_id \in ApiIds : ApiGetSession(session_id)
    \/ \E session_id \in ApiIds : ApiDownload(session_id)

SpecApi == Init /\ [][ApiNext]_vars

Blank(message) == \A i \in 1..Len(message) : message[i] \in Whitespace

\* C21: the session and download endpoints answer an id that is not in the
\* store with "404 Session not found" and leave the store as it is; a chat
\* request without session id and with a message that is not blank adds
\* exactly one session, whose history is the greeting, the user's message
\* and the reply, and answers for that session.
C21_UnknownOrMissingIdStep ==
    LET endpoint   == pure'.args[1]
        session_id == pure'.args[2]
        message    == pure'.args[3]
        status     == pure'.result[1]
    IN  /\ (endpoint \in {"session", "download"} /\ session_id[1] \notin DOMAIN sessions)
             => /\ status = "404 Session not found"
                /\ sessions' = sessions
                /\ issued' = issued
        /\ (endpoint = "chat" /\ session_id = None /\ ~Blank(message))
             => /\ status = "200"
                /\ issued' = issued + 1
                /\ \E new \in DOMAIN sessions' \ DOMAIN sessions :
                      /\ DOMAIN sessions' = DOMAIN sessions \cup {new}
                      /\ lastResponse'.session_id = new
                      /\ sessions'[new].conversation_history =
                           << [role |-> "assistant", content |-> WELCOME],
                              [role |-> "user", content |-> message],
                              [role |-> "assistant", content |-> lastResponse'.message] >>
                /\ \A other \in DOMAIN sessions : sessions'[other] = sessions[other]

C21_UnknownOrMissingId == [][C21_UnknownOrMissingIdStep]_vars

C21_ChatWithoutIdAnswered ==
    /\ pure.args = <<"chat", None, Hello>>
    /\ pure.result = <<"200">>
    /\ DOMAIN sessions = {1, 2}
    /\ lastResponse.session_id = 2
    /\ Len(sessions[2].conversation_history) = 3
    /\ sessions[2].conversation_stage = "collecting_info"

\* C22: a chat request whose message is empty or only whitespace is answered
\* with "400 Message cannot be empty"; no session is created and no stored
\* session changes, whether or not the request names a session.
C22_BlankMessageStep ==
    (pure'.args[1] = "chat" /\ Blank(pure'.args[3]))
       => /\ pure'.result = <<"400 Message cannot be empty">>
          /\ sessions' = sessions
          /\ issued' = issued
          /\ processed' = processed
          /\ lastResponse' = lastResponse

C22_BlankMessageRejected == [][C22_BlankMessageStep]_vars

C22_WhitespaceRejectedOnStoredSession ==
    /\ pure.args = <<"chat", Some(1), <<" ", "\t">> >>
    /\ pure.result = <<"400 Message cannot be empty">>
    /\ 1 \in DOMAIN sessions
    /\ sessions[1].conversation_stage = "collecting_info"
    /\ Len(sessions[1].conversation_history) = 3

(***************************************************************************)
(* The event loop serving chat requests.  uvicorn.run(app) starts one      *)
(* process with one event loop; chat is a coroutine and its body, lines    *)
(* 81-116 with everything process_message calls, holds no await.  The turn *)
(* is split at the points where the state object is written: the user's    *)
(* message is recorded, the handlers run, the reply is recorded.  Requests  *)
(* carry the id of a started session and a message that is not blank.      *)
(* pure holds the loop's tasks: the request, the position of its coroutine *)
(* and, for the properties, the record found at its start, the             *)
(* collaborators' answers and the record left at its end.                  *)
(***************************************************************************)
NewTask(session_id, message) ==
    [session_id |-> session_id, message |-> message, pc |-> "received",
     before |-> None, inp |-> None, res |-> None, after |-> None]

Started(task) == task.pc \in {"recorded", "orchestrated"}

\* a coroutine runs from the moment the loop picks it until it awaits or
\* returns: chat never awaits, so while one has started no other task runs
Runnable_at_every_statement(tasks, i) == TRUE

Runnable(tasks, i) == \A j \in DOMAIN tasks : j # i => ~Started(tasks[j])

LoopInit ==
    /\ sessions = [id \in {} |-> LoanApplicationState(id)]
    /\ issued = 0
    /\ processed = 0
    /\ lastResponse = NoResponse
    /\ lastCalls = <<>>
    /\ lastStages = <<>>
    /\ pure = [tasks |-> <<>>]

LoopStart ==
    /\ issued < MaxApiSessions
    /\ \A i \in DOMAIN pure.tasks : ~Started(pure.tasks[i])
    /\ LET r == start_session(sessions, issued + 1)
       IN  /\ sessions' = r.store
           /\ lastResponse' = r.response
    /\ issued' = issued + 1
    /\ lastCalls' = <<"start_session">>
    /\ lastStages' = <<>>
    /\ UNCHANGED <<processed, pure>>

\* a request arrives and its coroutine is scheduled
LoopAccept(session_id) ==
    /\ processed < MaxMessages
    /\ processed' = processed + 1
    /\ pure' = [tasks |-> Append(pure.tasks, NewTask(session_id, Hello))]
    /\ UNCHANGED <<sessions, issued, lastResponse, lastCalls, lastStages>>

\* process_message lines 49-55: the record is looked up and the user's
\* message appended
LoopRecordMessage(i) ==
    LET task == pure.tasks[i]
    IN  /\ task.pc = "received"
        /\ Runnable(pure.tasks, i)
        /\ sessions' = [sessions EXCEPT ![task.session_id] =
                           add_message(@, "user", task.message)]
        /\ pure' = [tasks |-> [pure.tasks EXCEPT ![i] =
                       [task EXCEPT !.pc = "recorded",
                                    !.before = Some(sessions[task.session_id])]]]
        /\ UNCHANGED <<issued, processed, lastResponse, lastCalls, lastStages>>

\* line 58: _orchestrate runs the stage handlers on the record
LoopOrchestrate(i) ==
    LET task  == pure.tasks[i]
        state == sessions[task.session_id]
    IN  /\ task.pc = "recorded"
        /\ Runnable(pure.tasks, i)
        /\ \E extraction \in ApiExtractions :
           \E draw \in DrawsFor(state, extraction) :
           \E pdf_ok \in PdfOutcomesFor(state, task.message, extraction, draw) :
           \E inp \in {Turn(task.message, extraction, draw, pdf_ok)} :
           \E res \in {_orchestrate(state, inp)} :
              /\ sessions' = [sessions EXCEPT ![task.session_id] = res.state]
              /\ pure' = [tasks |-> [pure.tasks EXCEPT ![i] =
                             [task EXCEPT !.pc = "orchestrated",
                                          !.inp = Some(inp), !.res = Some(res)]]]
        /\ UNCHANGED <<issued, processed, lastResponse, lastCalls, lastStages>>

\* lines 63-73: the reply is appended and the response returned
LoopReply(i) ==
    LET task == pure.tasks[i]
    IN  /\ task.pc = "orchestrated"
        /\ Runnable(pure.tasks, i)
        /\ \E r \in {Respond(sessions[task.session_id], task.res[1])} :
              /\ sessions' = [sessions EXCEPT ![task.session_id] = r.state]
              /\ lastResponse' = r.response
              /\ lastCalls' = <<"process_message">> \o r.calls
              /\ lastStages' = <<task.before[1].conversation_stage>> \o r.stages
              /\ pure' = [tasks |-> [pure.tasks EXCEPT ![i] =
                             [task EXCEPT !.pc = "done", !.after = Some(r.state)]]]
        /\ UNCHANGED <<issued, processed>>

LoopNext ==
    \/ LoopStart
    \/ \E session_id \in DOMAIN sessions : LoopAccept(session_id)
    \/ \E i \in DOMAIN pure.tasks : LoopRecordMessage(i)
    \/ \E i \in DOMAIN pure.tasks : LoopOrchestrate(i)
    \/ \E i \in DOMAIN pure.tasks : LoopReply(i)

SpecLoop == LoopInit /\ [][LoopNext]_vars

TasksOf(session_id, pcs) ==
    {i \in DOMAIN pure.tasks :
        pure.tasks[i].session_id = session_id /\ pure.tasks[i].pc \in pcs}

\* C23: no two requests for one session are in progress together; a request
\* that has completed left the record exactly as one uninterrupted
\* process_message on the record it found leaves it; and every recorded
\* message is kept: a session's history holds the greeting, two entries for
\* each completed request and the user's message of the one in progress.
C23_NoInterleaving ==
    /\ \A i, j \in DOMAIN pure.tasks :
          (i # j /\ pure.tasks[i].session_id = pure.tasks[j].session_id)
             => ~(Started(pure.tasks[i]) /\ Started(pure.tasks[j]))
    /\ \A i \in DOMAIN pure.tasks :
          pure.tasks[i].pc = "done"
             => pure.tasks[i].after
                  = Some(Turned(pure.tasks[i].before[1], pure.tasks[i].inp[1]).state)
    /\ \A session_id \in DOMAIN sessions :
          Len(sessions[session_id].conversation_history)
             = 1 + 2 * Cardinality(TasksOf(session_id, {"done"}))
                 + Cardinality(TasksOf(session_id, {"recorded", "orchestrated"}))

C23_SecondRequestWaited ==
    /\ Len(pure.tasks) = 3
    /\ pure.tasks[1].session_id = 1 /\ pure.tasks[1].pc = "done"
    /\ pure.tasks[2].session_id = 1 /\ pure.tasks[2].pc = "orchestrated"
    /\ pure.tasks[3].session_id = 1 /\ pure.tasks[3].pc = "received"
    /\ sessions[1].conversation_stage = "completed"

\* C24: a request changes no stored session but the one it names: starting
\* a session, a chat request for another id or without id, and the session
\* and download endpoints leave every field, the stage and the history of a
\* stored session as they were.
C24_OtherSessionsStep ==
    \A other \in DOMAIN sessions :
       (pure'.args[1] # "chat" \/ pure'.args[2] # Some(other))
          => /\ other \in DOMAIN sessions'
             /\ sessions'[other] = sessions[other]

C24_SessionsIndependent == [][C24_OtherSessionsStep]_vars

C24_TurnBesideCompletedSession ==
    /\ DOMAIN sessions = {1, 2}
    /\ pure.args = <<"chat", Some(2), Hello>>
    /\ pure.result = <<"200">>
    /\ sessions[1].conversation_stage = "completed"
    /\ sessions[2].conversation_stage = "collecting_info"
    /\ Len(sessions[2].conversation_history) = 3

IsPrefix(s, t) == Len(s) <= Len(t) /\ SubSeq(t, 1, Len(s)) = s

\* C25: every step keeps each session's conversation_history as a prefix of
\* the new one; start_session gives the new session one entry, the
\* assistant's greeting; a process_message adds exactly two entries to the
\* session it answers, a user entry and then the assistant entry holding the
\* reply of the response, and nothing to any other session.
C25_HistoryStep ==
    /\ \A id \in DOMAIN sessions :
          /\ id \in DOMAIN sessions'
          /\ IsPrefix(sessions[id].conversation_history,
                      sessions'[id].conversation_history)
    /\ \A id \in DOMAIN sessions' :
          LET old == IF id \in DOMAIN sessions
                     THEN sessions[id].conversation_history ELSE <<>>
              new == sessions'[id].conversation_history
              n   == Len(new)
          IN  IF lastCalls'[1] = "start_session"
              THEN IF id \in DOMAIN sessions THEN new = old
                   ELSE new = <<[role |-> "assistant", content |-> WELCOME]>>
              ELSE IF id # lastResponse'.session_id THEN new = old
              ELSE /\ n = Len(old) + 2
                   /\ new[n - 1].role = "user"
                   /\ new[n] = [role |-> "assistant",
                                content |-> lastResponse'.message]

C25_HistoryAppendOnly == [][C25_HistoryStep]_vars

C25_TwoEntriesAfterChainedTurn ==
    /\ Answered
    /\ lastCalls[1] = "process_message"
    /\ Len(lastStages) >= 5
    /\ Len(Last.conversation_history) = 5
    /\ Last.conversation_history[1].role = "assistant"
    /\ Last.conversation_history[4].role = "user"
    /\ Last.conversation_history[5].role = "assistant"

\* C26: in every stored session rejection_reason is set exactly when
\* final_decision is "rejected", which is exactly when underwriting_status
\* is "rejected"; and final_decision is "approved" exactly when
\* underwriting_status is "approved".
C26_RejectionReasonIffRejected ==
    \A id \in DOMAIN sessions :
       LET state == sessions[id]
       IN  /\ (state.rejection_reason # None) <=> (state.final_decision = "rejected")
           /\ (state.final_decision = "rejected") <=> (state.underwriting_status = "rejected")
           /\ (state.final_decision = "approved") <=> (state.underwriting_status = "approved")

C26_RejectedWithReason ==
    /\ Answered
    /\ Last.final_decision = "rejected"
    /\ Last.underwriting_status = "rejected"
    /\ Last.rejection_reason # None

\* C27: a stored session with a sanction_letter_path has final_decision
\* "approved" and an emi that is set and positive; and when the last
\* response reports a download (download_available True, or the path that
\* _handle_completed passes on), the session it answers has a
\* sanction_letter_path.
C27_PathOnlyFromIssuance ==
    /\ \A id \in DOMAIN sessions :
          sessions[id].sanction_letter_path # None
             => /\ sessions[id].final_decision = "approved"
                /\ sessions[id].emi # None
                /\ sessions[id].emi[1] > 0
    /\ (Answered /\ lastResponse.download_available \in {"True", "Path"})
          => Last.sanction_letter_path # None

C27_DownloadOfferedAfterCompletion ==
    /\ Answered
    /\ lastStages = <<"completed">>
    /\ lastResponse.download_available = "Path"
    /\ Last.sanction_letter_path = get_download_path(lastResponse.session_id)
    /\ Last.final_decision = "approved"

\* C28: a stored emi is the EMI of the session's current loan_amount,
\* interest_rate and tenure_months; and emi is null when the evaluator
\* computes none for the session: a loan term or the credit information is
\* missing or zero, the score is below the minimum, or the amount is above
\* the maximum multiple of the limit.
C28_EmiOfCurrentTerms ==
    \A id \in DOMAIN sessions :
       LET state == sessions[id]
           terms == Truthy(state.loan_amount) /\ Truthy(state.tenure_months)
                       /\ Truthy(state.interest_rate)
           credit == Truthy(state.credit_score) /\ Truthy(state.pre_approved_limit)
       IN  /\ state.emi # None
                => /\ terms
                   /\ state.emi = Some(calculate_emi(state.loan_amount[1],
                                                     state.interest_rate[1],
                                                     state.tenure_months[1]))
           /\ (~terms \/ ~credit
                  \/ state.credit_score[1] < MIN_CREDIT_SCORE
                  \/ state.loan_amount[1] > state.pre_approved_limit[1] * MAX_MULTIPLIER)
                => state.emi = None

C28_EmiKeptThroughSalaryRejection ==
    /\ Answered
    /\ lastStages = <<"salary_collection", "underwriting", "completed">>
    /\ Last.final_decision = "rejected"
    /\ Last.emi = Some(calculate_emi(Last.loan_amount[1], Last.interest_rate[1],
                                     Last.tenure_months[1]))

\* C29: when loan_amount, tenure_months or interest_rate is missing or zero
\* the evaluator answers pending "Missing loan details", whatever the credit
\* information is; otherwise, when credit_score or pre_approved_limit is
\* missing or zero, it answers pending "Missing credit information"; both
\* answers have emi null and requires_salary false.
C29_MissingDataOrder ==
    pure.result # <<>> =>
       LET a == pure.args
           r == pure.result[1]
           terms  == Truthy(a.loan_amount) /\ Truthy(a.tenure_months)
                        /\ Truthy(a.interest_rate)
           credit == Truthy(a.credit_score) /\ Truthy(a.pre_approved_limit)
       IN  /\ ~terms
                => /\ r.decision = "pending"
                   /\ r.reason = <<"Missing loan details">>
                   /\ r.emi = None
                   /\ r.requires_salary = FALSE
           /\ (terms /\ ~credit)
                => /\ r.decision = "pending"
                   /\ r.reason = <<"Missing credit information">>
                   /\ r.emi = None
                   /\ r.requires_salary = FALSE

C29_LoanDetailsBeforeLowScore ==
    /\ pure.result # <<>>
    /\ pure.args.interest_rate = Some(0)
    /\ pure.args.loan_amount = Some(100000)
    /\ pure.args.tenure_months = Some(1)
    /\ pure.args.credit_score = Some(699)
    /\ pure.args.pre_approved_limit = None
    /\ pure.result[1].reason = <<"Missing loan details">>

\* C30: when a turn ends with the prompt for missing information, the prompt
\* names one of the four required fields, that field is missing in the
\* session, and every field before it in the order loan amount, loan
\* tenure, phone number, customer name is present.
C30_PromptsHighestPriorityField ==
    (Answered /\ lastResponse.actions = <<"collecting_info">>)
       => LET asked == lastResponse.message[2]
          IN  /\ Len(lastResponse.message) = 2
              /\ Last.conversation_stage = "collecting_info"
              /\ asked = IF ~Truthy(Last.loan_amount) THEN "loan amount"
                         ELSE IF ~Truthy(Last.tenure_months) THEN "loan tenure"
                         ELSE IF ~TruthyStr(Last.phone_number) THEN "phone number"
                         ELSE "customer name"
              /\ asked = "customer name" => ~TruthyStr(Last.customer_name)

C30_AskedForTenureBeforePhone ==
    /\ Answered
    /\ lastResponse.actions = <<"collecting_info">>
    /\ lastResponse.message = <<"sales_response", "loan tenure">>
    /\ Truthy(Last.loan_amount)
    /\ ~TruthyStr(Last.phone_number)
    /\ ~TruthyStr(Last.customer_name)

KycChained == Answered /\ Contains(lastCalls, "verify_customer")

\* C31: after a turn that ran verification and underwriting, a rejected
\* application is answered with the rejection message alone,
\* download_available false and no download path; and a response that
\* starts with the KYC message belongs to an application that was approved
\* or is pending on the salary.
C31_RejectionSkipsKycMessage ==
    KycChained =>
       /\ Last.final_decision = "rejected"
             => /\ lastResponse.message = <<"rejection_message">>
                /\ lastResponse.actions = <<"application_rejected">>
                /\ lastResponse.download_available = "False"
                /\ lastResponse.download_path = None
       /\ lastResponse.message[1] = "kyc_message"
             => /\ Last.final_decision # "rejected"
                /\ \/ Last.final_decision = "approved"
                   \/ Last.underwriting_status = "requires_salary"

C31_RejectedWithGoodScore ==
    /\ KycChained
    /\ Last.final_decision = "rejected"
    /\ Last.credit_score # None
    /\ Last.credit_score[1] >= 700
    /\ lastResponse.message = <<"rejection_message">>

\* C32: no stored session is ever in stage decision, and no turn runs
\* _handle_decision or passes through the stage.
C32_DecisionStageUnreachable ==
    /\ \A id \in DOMAIN sessions : sessions[id].conversation_stage # "decision"
    /\ ~Contains(lastCalls, "_handle_decision")
    /\ ~Contains(lastStages, "decision")

C32_DecidedWithoutDecisionStage ==
    /\ Answered
    /\ Last.final_decision = "rejected"
    /\ lastStages = <<"salary_collection", "underwriting", "completed">>
    /\ \A id \in DOMAIN sessions : sessions[id].conversation_stage # "decision"

\* C33: a stored session is in stage collecting_info, salary_collection,
\* sanction_letter or completed, or in stage greeting with no user message
\* in its history; it is never left in kyc_verification or underwriting.
C33_RestsOutsideChainedStages ==
    \A id \in DOMAIN sessions :
       \/ sessions[id].conversation_stage
             \in {"collecting_info", "salary_collection", "sanction_letter", "completed"}
       \/ /\ sessions[id].conversation_stage = "greeting"
          /\ \A i \in 1..Len(sessions[id].conversation_history) :
                sessions[id].conversation_history[i].role # "user"

C33_ChainedThroughToSalary ==
    /\ Answered
    /\ lastStages = <<"collecting_info", "kyc_verification", "underwriting",
                      "salary_collection">>
    /\ Last.conversation_stage = "salary_collection"

\* a turn dispatched in salary_collection that obtained a salary and so
\* went on to underwriting
SalaryAccepted ==
    /\ DispatchedIn("salary_collection")
    /\ Len(lastStages) >= 2
    /\ lastStages[2] = "underwriting"

\* C34: a turn in salary_collection from whose message a salary was obtained
\* ends with final_decision "approved" or "rejected" and the session out of
\* salary_collection.
C34_SalaryTurnDecides ==
    SalaryAccepted
       => /\ Last.final_decision \in {"approved", "rejected"}
          /\ Last.conversation_stage # "salary_collection"

\* C35: a stored session in stage completed has final_decision "approved"
\* or "rejected"; if approved it has a sanction_letter_path, if rejected it
\* has none.
C35_CompletedIsDecided ==
    \A id \in DOMAIN sessions :
       sessions[id].conversation_stage = "completed"
          => /\ sessions[id].final_decision \in {"approved", "rejected"}
             /\ sessions[id].final_decision = "approved"
                   => sessions[id].sanction_letter_path # None
             /\ sessions[id].final_decision = "rejected"
                   => sessions[id].sanction_letter_path = None

C35_CompletedApprovedWithLetter ==
    /\ Answered
    /\ Last.conversation_stage = "completed"
    /\ Last.final_decision = "approved"
    /\ Last.sanction_letter_path = get_download_path(lastResponse.session_id)
    /\ Contains(lastCalls, "generate_sanction_letter")

\* C36: a session left in stage sanction_letter has final_decision
\* "approved", no sanction_letter_path, and the turn that left it there
\* called document issuance without announcing a letter; a message for a
\* session that rests in sanction_letter calls document issuance and
\* neither verification nor the evaluator, and changes nothing but the
\* history, the stage and the path: when the letter is issued the session
\* is completed with the letter's path, otherwise it stays as it was.
C36_SanctionLetterStep ==
    /\ \A id \in DOMAIN sessions' :
          sessions'[id].conversation_stage = "sanction_letter"
             => /\ sessions'[id].final_decision = "approved"
                /\ sessions'[id].sanction_letter_path = None
                /\ Truthy(sessions'[id].emi)
                /\ (id \notin DOMAIN sessions \/ sessions'[id] # sessions[id])
                      => /\ Contains(lastCalls', "generate_sanction_letter")
                         /\ lastResponse'.actions = <<"sanction_letter_error">>
    /\ \A id \in DOMAIN sessions :
          (sessions[id].conversation_stage = "sanction_letter"
             /\ sessions'[id] # sessions[id])
             => LET old == sessions[id]
                    new == sessions'[id]
                    issued_now == Contains(lastResponse'.actions,
                                           "sanction_letter_generated")
                IN  /\ lastCalls' = <<"process_message", "_handle_sanction_letter",
                                      "generate_sanction_letter">>
                    /\ new = [old EXCEPT
                                !.conversation_history = new.conversation_history,
                                !.conversation_stage = new.conversation_stage,
                                !.sanction_letter_path = new.sanction_letter_path]
                    /\ IF issued_now
                       THEN /\ new.conversation_stage = "completed"
                            /\ new.sanction_letter_path = get_download_path(id)
                       ELSE /\ new.conversation_stage = "sanction_letter"
                            /\ new.sanction_letter_path = None

C36_RetryUntilIssued == [][C36_SanctionLetterStep]_vars

C36_IssuedOnRetry ==
    /\ Answered
    /\ lastStages = <<"sanction_letter", "completed">>
    /\ lastCalls = <<"process_message", "_handle_sanction_letter",
                     "generate_sanction_letter">>
    /\ Last.conversation_stage = "completed"
    /\ Last.sanction_letter_path # None

Frozen(state) ==
    <<state.customer_name, state.phone_number, state.loan_amount,
      state.tenure_months, state.interest_rate, state.credit_score,
      state.pre_approved_limit>>

\* C37: a step leaves customer_name, phone_number, loan_amount,
\* tenure_months, interest_rate, credit_score and pre_approved_limit of a
\* session in salary_collection, sanction_letter or completed as they were;
\* a turn calls verify_customer at most once, and never for a session that
\* already has a credit score.
C37_FrozenStep ==
    /\ \A id \in DOMAIN sessions :
          /\ sessions[id].conversation_stage
                \in {"salary_collection", "sanction_letter", "completed"}
                => Frozen(sessions'[id]) = Frozen(sessions[id])
          /\ (sessions[id].credit_score # None /\ sessions'[id] # sessions[id])
                => ~Contains(lastCalls', "verify_customer")
    /\ Cardinality({i \in 1..Len(lastCalls') : lastCalls'[i] = "verify_customer"}) <= 1

C37_TermsFrozenAfterCollection == [][C37_FrozenStep]_vars

C37_SalaryTakenTermsKept ==
    /\ SalaryAccepted
    /\ Last.salary = Some(2000000)
    /\ Last.loan_amount = Some(600000)
    /\ Last.customer_name = "Asha"
    /\ Last.final_decision = "approved"

\* C38: a process_message for an id the store does not hold, never issued
\* or deleted, is answered; it adds exactly one session, under an id that
\* is neither the requested one nor one the store held, dispatches the
\* message there in stage greeting, and names the new id in the response;
\* the requested id is not in the store afterwards.
C38_AbsentIdStep ==
    LET id  == pure'.args[2]
        new == lastResponse'.session_id
    IN  (pure'.args[1] = "process_message" /\ id \notin DOMAIN sessions)
           => /\ new # id
              /\ new \notin DOMAIN sessions
              /\ DOMAIN sessions' = DOMAIN sessions \cup {new}
              /\ issued' = issued + 1
              /\ get_session(sessions', id) = None
              /\ sessions'[new].session_id = new
              /\ lastStages' = <<"greeting", "collecting_info">>
              /\ sessions'[new].conversation_history =
                    << [role |-> "user", content |-> Hello],
                       [role |-> "assistant", content |-> lastResponse'.message] >>
              /\ \A other \in DOMAIN sessions : sessions'[other] = sessions[other]

C38_AbsentIdGetsFreshSession == [][C38_AbsentIdStep]_vars

C38_MessageForDeletedId ==
    /\ pure.args = <<"process_message", 1>>
    /\ issued = 2
    /\ DOMAIN sessions = {2}
    /\ lastResponse.session_id = 2
    /\ sessions[2].conversation_stage = "collecting_info"

Occurrences(seq, x) == Cardinality({i \in 1..Len(seq) : seq[i] = x})

\* C39: in one process_message no handler runs twice, verify_customer,
\* evaluate and generate_sanction_letter are each called at most once, and
\* the stage changes at most four times.
C39_BoundedChain ==
    /\ \A call \in {"_handle_greeting", "_handle_info_collection", "_handle_kyc",
                    "_handle_underwriting", "_handle_salary_collection",
                    "_handle_sanction_letter", "_handle_completed",
                    "verify_customer", "evaluate", "generate_sanction_letter"} :
          Occurrences(lastCalls, call) <= 1
    /\ Len(lastStages) <= 5
    /\ \A i \in 1..(Len(lastStages) - 1) : lastStages[i] # lastStages[i + 1]

C39_LongestChain ==
    /\ Answered
    /\ lastStages = <<"collecting_info", "kyc_verification", "underwriting",
                      "sanction_letter", "completed">>
    /\ Occurrences(lastCalls, "verify_customer") = 1
    /\ Occurrences(lastCalls, "evaluate") = 1
    /\ Occurrences(lastCalls, "generate_sanction_letter") = 1

\* C40: every "approved" result of evaluate carries an emi that is set and
\* strictly positive, also when loan_amount, tenure_months or interest_rate
\* is negative.
C40_ApprovedHasPositiveEmi ==
    (pure.result # <<>> /\ pure.result[1].decision = "approved")
       => /\ pure.result[1].emi # None
          /\ pure.result[1].emi[1] > 0

====
